---- MODULE Spec2Model ----
(***************************************************************************)
(* Tile rasterizer of BrogueCE's SDL platform layer (tiles.c): atlas       *)
(* analysis, per-tile geometry, downscaling, shift calibration, the        *)
(* texture variants and the compositor's variant selection.                *)
(*                                                                         *)
(* The repository holds two close variants of tiles.c.  The model follows  *)
(* src/unnamed/part_001 (the later one, "new") and carries the places      *)
(* where src/unnamed/part_002 ("old") differs behind the variable build.   *)
(*                                                                         *)
(* Arithmetic.  The C code computes the coordinate maps in double          *)
(* precision.  Every quantity involved is a rational with a small known    *)
(* denominator (tenths of a pixel times a stop distance), so the model     *)
(* computes them exactly as scaled integers and truncates or rounds as C   *)
(* does.                                                                   *)
(***************************************************************************)
EXTENDS Integers, Sequences, FiniteSets, TLC

\* ------------------------------------------------------------------------
\* Program constants

PNG_WIDTH == 2048
PNG_HEIGHT == 5568
TILE_WIDTH == 128
TILE_HEIGHT == 232
TILE_ROWS == 24
TILE_COLS == 16
TEXT_X_HEIGHT == 100
TEXT_BASELINE == 46
MAX_TILE_SIZE == 64

\* How each atlas cell is processed: 's' stretch, 'f' fit, 't' text,
\* '#' text with vertical sub-pixel alignment.
TileProcessing ==
    <<
       << "f", "f", "f", "f", "f", "f", "f", "f", "f", "f", "f", "f", "f", "f", "f", "f" >>,
       << "f", "f", "f", "f", "f", "f", "f", "f", "f", "f", "f", "f", "f", "f", "f", "f" >>,
       << "#", "t", "#", "#", "#", "#", "#", "#", "#", "#", "#", "#", "t", "#", "t", "#" >>,
       << "t", "t", "t", "t", "t", "t", "t", "t", "t", "t", "t", "t", "#", "#", "#", "t" >>,
       << "#", "t", "t", "t", "t", "t", "t", "t", "t", "t", "t", "t", "t", "t", "t", "t" >>,
       << "t", "t", "t", "t", "t", "t", "t", "t", "t", "t", "t", "#", "#", "#", "#", "#" >>,
       << "#", "t", "t", "t", "t", "t", "t", "t", "t", "t", "t", "t", "t", "t", "t", "t" >>,
       << "t", "t", "t", "t", "t", "t", "t", "t", "t", "t", "t", "#", "#", "#", "#", "#" >>,
       << "#", "#", "#", "#", "#", "#", "#", "#", "#", "#", "#", "#", "#", "#", "#", "#" >>,
       << "#", "#", "#", "#", "#", "#", "#", "#", "#", "#", "#", "#", "#", "#", "#", "#" >>,
       << "#", "#", "#", "#", "#", "#", "#", "#", "#", "#", "#", "#", "#", "#", "#", "#" >>,
       << "#", "#", "#", "#", "#", "#", "#", "#", "#", "#", "#", "#", "#", "#", "#", "#" >>,
       << "t", "t", "t", "t", "t", "t", "t", "t", "t", "t", "t", "t", "t", "t", "t", "t" >>,
       << "t", "t", "t", "t", "t", "t", "t", "#", "t", "t", "t", "t", "t", "t", "t", "t" >>,
       << "t", "t", "t", "t", "t", "t", "t", "t", "t", "t", "t", "t", "t", "t", "t", "t" >>,
       << "t", "t", "t", "t", "t", "t", "t", "#", "t", "t", "t", "t", "t", "t", "t", "t" >>,
       << "f", "f", "s", "f", "s", "f", "s", "f", "f", "s", "s", "s", "s", "s", "s", "s" >>,
       << "s", "s", "f", "s", "f", "s", "f", "f", "f", "f", "f", "f", "f", "f", "f", "f" >>,
       << "f", "f", "f", "f", "f", "f", "f", "f", "f", "f", "f", "f", "f", "s", "f", "f" >>,
       << "f", "f", "f", "f", "f", "f", "f", "f", "f", "f", "f", "f", "f", "f", "f", "f" >>,
       << "f", "s", "s", "s", "f", "f", "f", "f", "f", "f", "f", "f", "f", "f", "f", "s" >>,
       << "f", "s", "f", "f", "f", "f", "f", "f", "f", "f", "f", "f", "f", "f", "f", "f" >>,
       << "f", "f", "f", "f", "s", "s", "s", "s", "f", "f", "s", "s", "f", "f", "f", "f" >>,
       << "f", "f", "f", "f", "s", "f", "f", "f", "f", "f", "s", "s", "s", "s", "f", "f" >>
    >>

\* ------------------------------------------------------------------------
\* C arithmetic

Max(a, b) == IF a > b THEN a ELSE b
Min(a, b) == IF a < b THEN a ELSE b

\* C integer division and the double-to-int conversion: truncation toward 0
\* of the rational n / d, d > 0.
CDiv(n, d) == IF n >= 0 THEN n \div d ELSE -((-n) \div d)

\* C round(): the rational n / d (d > 0) to the nearest integer, halves away
\* from zero.
CRound(n, d) == IF n >= 0 THEN (2 * n + d) \div (2 * d) ELSE -((d - 2 * n) \div (2 * d))

\* f itself.  TLC holds [x \in S |-> e] unevaluated and evaluates e at every
\* application; comparing the function makes it tabulate e once.
Table(f) == IF f = f THEN f ELSE f

\* A C loop "for (i = from; i < to; i++) acc = Body(acc, i)" over a record acc
\* (split in halves, the first half evaluated before the second is entered,
\* which keeps TLC's evaluation shallow).
RECURSIVE Loop(_, _, _, _)
Loop(Body(_, _), acc, from, to) ==
    CHOOSE out \in {IF to <= from THEN a
                    ELSE IF to = from + 1 THEN Body(a, from)
                    ELSE Loop(Body, Loop(Body, a, from, (from + to) \div 2),
                              (from + to) \div 2, to) : a \in {acc}} : TRUE

\* A value computed once and then used: "x = ...;" followed by Op's code.
Let(x, Op(_)) == CHOOSE out \in {Op(v) : v \in {x}} : TRUE

\* int8_t as stored in tileShifts and in the cache file.
Int8 == -128 .. 127
\* A read that keeps the unsigned byte (a variant the round trip must tell apart).
ToInt8Unsigned(v) == v

ToInt8(v) == ((v + 128) % 256) - 128

\* ------------------------------------------------------------------------
\* Atlas cells

Cells == (0 .. TILE_ROWS - 1) \X (0 .. TILE_COLS - 1)
Processing(row, column) == TileProcessing[row + 1][column + 1]

\* The cells prepareTile augments procedurally.
IsFloor(row, column) == row = 20 /\ column = 2
\* A variant that tests the row alone.
IsWallTopRow(row, column) == row \in {16, 21, 22}

IsWallTop(row, column) ==
    \/ row = 16 /\ column = 2
    \/ row = 21 /\ column = 1
    \/ row = 22 /\ column = 4

NoShifts == << 0, 0, 0 >>

\* ------------------------------------------------------------------------
\* prepareTile: size of the downscaled glyph

\* 'f': stretch = max(1.0, min(1.2, fitWidth*TILE_HEIGHT / (fitHeight*TILE_WIDTH)))
\* as the fraction << numerator, denominator >>.
FitStretch(fitWidth, fitHeight) ==
    LET n == fitWidth * TILE_HEIGHT
        d == fitHeight * TILE_WIDTH
    IN  IF n <= d THEN << 1, 1 >>
        ELSE IF 5 * n >= 6 * d THEN << 6, 5 >>
        ELSE << n, d >>

\* fitWidth, fitHeight, glyphWidth, glyphHeight as prepareTile chooses them.
GlyphSize(processing, padding, optimizing, tileWidth, tileHeight, baseW, baseH) ==
    LET fitWidth == Max(1, baseW)
        fitHeight == Max(1, baseH)
        inner == TILE_HEIGHT - 2 * padding
        st == FitStretch(fitWidth, fitHeight)
    IN  IF processing = "s" \/ optimizing
        THEN [fitWidth |-> tileWidth, fitHeight |-> tileHeight,
              glyphWidth |-> tileWidth, glyphHeight |-> tileHeight]
        ELSE IF processing = "f"
        THEN [fitWidth |-> fitWidth, fitHeight |-> fitHeight,
              glyphWidth |-> Max(1, Min(fitWidth,
                  CRound(6 * fitHeight * TILE_WIDTH, 5 * inner))),
              glyphHeight |-> Max(1, Min(fitHeight,
                  CRound(st[1] * fitWidth * inner, st[2] * TILE_WIDTH)))]
        ELSE [fitWidth |-> fitWidth, fitHeight |-> fitHeight,
              glyphWidth |-> Max(1, Min(fitWidth,
                  CRound(7 * fitHeight * TILE_WIDTH, 5 * TILE_HEIGHT))),
              glyphHeight |-> Max(1, Min(fitHeight,
                  CRound(7 * fitWidth * TILE_HEIGHT, 5 * TILE_WIDTH)))]

\* ------------------------------------------------------------------------
\* prepareTile: the two coordinate maps.  A map is five stops in the source
\* and five positions in the target, the positions held as integers scaled
\* by k (so that tenths of a pixel and the stop fractions are exact).

\* One segment: (int)(mapA + (mapB - mapA) * (x - stopA) / (stopB - stopA)).
Segment(mA, mB, sA, sB, x, k) ==
    CDiv(mA * (sB - sA) + (mB - mA) * (x - sA), k * (sB - sA))

\* Index of the segment that holds source coordinate x (stop[1] <= x < stop[5]).
SegmentOf(stop, x) ==
    IF x < stop[2] THEN 1 ELSE IF x < stop[3] THEN 2 ELSE IF x < stop[4] THEN 3 ELSE 4

Scaled(stop, map, k, x) ==
    LET i == SegmentOf(stop, x)
    IN  Segment(map[i], map[i + 1], stop[i], stop[i + 1], x, k)

HStops == << 0, TILE_WIDTH \div 5, TILE_WIDTH \div 2, (TILE_WIDTH * 4) \div 5, TILE_WIDTH >>
HScale == 10 * TILE_WIDTH

\* map0 of the horizontal map, in pixels.
HMap0(fitWidth, glyphWidth, shifts) ==
    CDiv(fitWidth - glyphWidth + (IF shifts[1] + shifts[2] < 0 THEN 1 ELSE 0), 2)

\* map0 .. map4 of the horizontal map, scaled by HScale.
HMap(fitWidth, glyphWidth, shifts) ==
    LET m0 == HMap0(fitWidth, glyphWidth, shifts) * HScale
        at(i, s) == m0 + glyphWidth * (HStops[i] - HStops[1]) * 10 + s * TILE_WIDTH
    IN  << m0, at(2, shifts[1]), at(3, shifts[3]), at(4, shifts[2]), m0 + glyphWidth * HScale >>

\* scaledX[0 .. TILE_WIDTH-1]
ScaledX(fitWidth, glyphWidth, shifts) ==
    LET map == HMap(fitWidth, glyphWidth, shifts)
    IN  Table([x \in 0 .. TILE_WIDTH - 1 |-> Scaled(HStops, map, HScale, x)])

\* The vertical stops: fixed landmarks for 't', measured padding otherwise.
VStops(processing, padding) ==
    IF processing = "t"
    THEN LET stop3 == TILE_HEIGHT - TEXT_BASELINE
             stop2 == stop3 - TEXT_X_HEIGHT
         IN  << 0, stop2 \div 3, stop2, stop3, TILE_HEIGHT >>
    ELSE LET stop0 == padding
             stop4 == TILE_HEIGHT - padding
         IN  << stop0, stop0 + (stop4 - stop0) \div 5, stop0 + (stop4 - stop0) \div 2,
                stop0 + ((stop4 - stop0) * 4) \div 5, stop4 >>

\* Scale of the vertical map: tenths, the stop span, and the third of 't'.
VScale(stop) == 30 * (stop[5] - stop[1])

VMap0(fitHeight, glyphHeight) == CDiv(fitHeight - glyphHeight, 2)

\* A variant that leaves the stops of 't' where the proportions put them.
VMapUnaligned(processing, stop, fitHeight, glyphHeight) ==
    LET k == VScale(stop)
        m0 == VMap0(fitHeight, glyphHeight) * k
        at(i) == m0 + glyphHeight * (stop[i] - stop[1]) * 30
    IN  << m0, at(2), at(3), at(4), m0 + glyphHeight * k >>

\* map0 .. map4 of the vertical map before the shifts are added.
VMapUnshifted(processing, stop, fitHeight, glyphHeight) ==
    LET k == VScale(stop)
        m0 == VMap0(fitHeight, glyphHeight) * k
        at(i) == m0 + glyphHeight * (stop[i] - stop[1]) * 30
        m4 == m0 + glyphHeight * k
    IN  IF processing = "t"
        THEN LET r2 == CRound(at(3), k) * k
                 m3 == at(4) + r2 - at(3)
                 r3 == Max(r2 + k, CRound(m3, k) * k)
             IN  << m0, m0 + (r2 - m0) \div 3, r2, r3, m4 >>
        ELSE << m0, at(2), at(3), at(4), m4 >>

VMap(processing, stop, fitHeight, glyphHeight, shifts) ==
    LET k == VScale(stop)
        u == VMapUnshifted(processing, stop, fitHeight, glyphHeight)
        tenth == k \div 10
    IN  << u[1], u[2] + shifts[1] * tenth, u[3] + shifts[3] * tenth,
           u[4] + shifts[2] * tenth, u[5] >>

\* scaledY[0 .. TILE_HEIGHT-1]; -1 where the source row is not mapped.
ScaledY(processing, padding, fitHeight, glyphHeight, shifts) ==
    LET stop == VStops(processing, padding)
        map == VMap(processing, stop, fitHeight, glyphHeight, shifts)
        k == VScale(stop)
    IN  Table([y \in 0 .. TILE_HEIGHT - 1 |->
            IF y < stop[1] \/ y >= stop[5] THEN -1 ELSE Scaled(stop, map, k, y)])


\* ------------------------------------------------------------------------
\* The atlas (assets/tiles.png).  The image is an input of the program; the
\* model draws it from a family in which a cell is either transparent or one
\* rectangle [x0, x1) x [y0, y1) of a single luminance on a transparent
\* ground.  A content is the record [x0, x1, y0, y1, lum]; lum = 0 or an
\* empty rectangle is a transparent cell.

Content(x0, x1, y0, y1, lum) == [x0 |-> x0, x1 |-> x1, y0 |-> y0, y1 |-> y1, lum |-> lum]
Blank == Content(0, 0, 0, 0, 0)

\* pixels[...] & 0xff of the pixel (x, y) of a cell
Pixel(c, x, y) ==
    IF x >= c.x0 /\ x < c.x1 /\ y >= c.y0 /\ y < c.y1 THEN c.lum ELSE 0

isTileEmpty(c) ==
    ~ \E y \in 0 .. TILE_HEIGHT - 1 : \E x \in 0 .. TILE_WIDTH - 1 : Pixel(c, x, y) # 0

\* The first padding in 0 .. TILE_HEIGHT/4 - 1 whose top or bottom row holds a
\* non-transparent pixel, TILE_HEIGHT/4 when there is none.
RECURSIVE PaddingFrom(_, _)
PaddingFrom(c, padding) ==
    IF padding >= TILE_HEIGHT \div 4 THEN padding
    ELSE IF \E x \in 0 .. TILE_WIDTH - 1 :
                \/ Pixel(c, x, padding) # 0
                \/ Pixel(c, x, TILE_HEIGHT - padding - 1) # 0
         THEN padding
         ELSE PaddingFrom(c, padding + 1)

getPadding(c) == PaddingFrom(c, 0)

\* ------------------------------------------------------------------------
\* prepareTile: the accumulator.  values[] packs a counter (high 32 bits) and
\* a sum of squares (low 32 bits); the model holds a pixel as << counter,
\* sum >>.
\*
\* The loop "downscale source tile to accumulator" adds one source row at a
\* time to the target row y1 = scaledY[y0].  What a source row adds depends
\* on its pixels alone, and the rows of a cell are of two kinds (rows that
\* cross the rectangle, transparent rows).  The model therefore runs the loop
\* over the rows in order, as the code does, and holds each target row as the
\* number of source rows of each kind added to it; the pixels are the sums of
\* the row additions these numbers stand for.

Zero == << 0, 0 >>
Add(a, b) == << a[1] + b[1], a[2] + b[2] >>
Times(n, a) == << n * a[1], n * a[2] >>

\* What one source row adds at each target column col: the pixels x0 of the
\* row with scaledX[x0] = col, each as (value * value) | 0x100000000.
RowAddLit(c, sx, y0, cols) ==
    Table([col \in cols |->
        LET xs == {x \in 0 .. TILE_WIDTH - 1 : sx[x] = col}
            lum == {x \in xs : Pixel(c, x, y0) # 0}
        IN  << Cardinality(lum), Cardinality(lum) * c.lum * c.lum >>])

RowAdd(c, sx, y0, cols) ==
    Table([col \in cols |->
        LET xs == {x \in 0 .. TILE_WIDTH - 1 : sx[x] = col}
            lum == {x \in xs : Pixel(c, x, y0) # 0}
        IN  << Cardinality(xs), Cardinality(lum) * c.lum * c.lum >>])

\* The kind of a source row, and a row of each kind.
RowKind(c, y0) == IF y0 >= c.y0 /\ y0 < c.y1 /\ c.x0 < c.x1 /\ c.lum # 0 THEN 1 ELSE 2
KindRow(c, kind) == IF kind = 1 THEN c.y0 ELSE IF c.y0 > 0 THEN 0 ELSE TILE_HEIGHT - 1

Floor(n, d) == IF n >= 0 THEN n \div d ELSE -((-n + d - 1) \div d)

\* dst[col] with dst = &values[y1 * tileWidth] is the pixel col % tileWidth of
\* the row y1 + Offset(col): the row itself for a column in 0 .. tileWidth-1,
\* a neighbouring row of the buffer otherwise.
Offset(col, tileWidth) == Floor(col, tileWidth)
Offsets(cols, tileWidth) == {Offset(col, tileWidth) : col \in cols}
Terms(offsets) == {1, 2} \X offsets

NoRows(offsets, tileHeight) ==
    Table([y \in 0 .. tileHeight - 1 |-> [term \in Terms(offsets) |-> 0]])

\* dst[scaledX[x0]] += ... for the whole source row: one more row of its kind
\* in each target row it reaches.  A target row outside the buffer is a write
\* outside the allocation: ub.
RECURSIVE AddRow(_, _, _, _, _)
AddRow(acc, kind, y1, offsets, tileHeight) ==
    IF offsets = {} THEN acc
    ELSE LET d == CHOOSE o \in offsets : TRUE
             next == IF y1 + d \in 0 .. tileHeight - 1
                     THEN [acc EXCEPT !.rows[y1 + d][<< kind, d >>] = @ + 1]
                     ELSE [acc EXCEPT !.ub = TRUE]
         IN  AddRow(next, kind, y1, offsets \ {d}, tileHeight)

\* interpolate skipped lines: dst[x1 - tileWidth] = dst[x1 - 2*tileWidth] + dst[x1]
Interpolate(acc, y1, offsets) ==
    [acc EXCEPT !.rows[y1 - 1] =
        Table([term \in Terms(offsets) |-> acc.rows[y1 - 2][term] + acc.rows[y1][term]])]

\* One pass of the loop over the source rows, for the row y0.  The test of the
\* skipped line reads scaledY[y0 - 1]; for y0 = 0 that is the word before the
\* array, and the model takes before as its value.
DownscaleRow(acc, c, sy, offsets, tileHeight, before, y0) ==
    LET y1 == sy[y0]
    IN  IF y1 < 0 \/ y1 >= tileHeight THEN acc
        ELSE LET a1 == AddRow(acc, RowKind(c, y0), y1, offsets, tileHeight)
                 prev == IF y0 = 0 THEN before ELSE sy[y0 - 1]
             IN  IF y1 >= 2 /\ prev = y1 - 2 THEN Interpolate(a1, y1, offsets) ELSE a1

\* The loop over the source rows, in order.
Downscale(acc, c, sy, offsets, tileHeight, before) ==
    LET Body(a, y0) == DownscaleRow(a, c, sy, offsets, tileHeight, before, y0)
    IN  Loop(Body, acc, 0, TILE_HEIGHT)

\* The pixel (x, y) of the accumulator: the row additions of the target row
\* y, each taken at the column that lands on x.
RECURSIVE SumTerms(_, _, _, _, _)
SumTerms(row, adds, x, tileWidth, terms) ==
    IF terms = {} THEN Zero
    ELSE LET term == CHOOSE t \in terms : TRUE
             col == term[2] * tileWidth + x
             here == IF col \in DOMAIN adds[term[1]]
                     THEN Times(row[term], adds[term[1]][col]) ELSE Zero
         IN  Add(here, SumTerms(row, adds, x, tileWidth, terms \ {term}))

Values(rows, adds, offsets, tileWidth, tileHeight) ==
    Table([y \in 0 .. tileHeight - 1 |-> [x \in 0 .. tileWidth - 1 |->
        SumTerms(rows[y], adds, x, tileWidth, Terms(offsets))]])

\* ------------------------------------------------------------------------
\* prepareTile: from the accumulator to the alpha channel

LIGHT == 255 * 255

\* value = (value >> 32) ? (value & 0xffffffff) / (value >> 32) : 0
\* A variant that takes the sum for the average.
AverageOfOne(v) == IF v[1] # 0 THEN v[2] ELSE 0

Average(v) == IF v[1] # 0 THEN v[2] \div v[1] ELSE 0

\* sin(PI / (255*255) * value) in units of 1 / BLUR_UNIT.  The model has no
\* reals: it takes Bhaskara's rational approximation of the half wave,
\* sin(PI * t) ~ 16 t (1 - t) / (5 - 4 t (1 - t)), with t = value / LIGHT.
BLUR_UNIT == 8 * 1000
BlurOf(value) ==
    LET p == (value * (LIGHT - value)) \div LIGHT
    IN  (16 * p * BLUR_UNIT) \div (5 * LIGHT - 4 * p)

\* make text look less bold
Thin(value) ==
    IF value < LIGHT \div 2 THEN value \div 2 ELSE (value * 3) \div 2 - LIGHT \div 2

\* round(sqrt(value)): the a with (a - 1/2)^2 <= value < (a + 1/2)^2
RoundSqrt(value) == CHOOSE a \in 0 .. 255 : a * a - a < value /\ value <= a * a + a

\* opacity (gamma-compressed, 0 .. 255)
Alpha(value) == IF value = 0 THEN 0 ELSE IF value > 64770 THEN 255 ELSE RoundSqrt(value)

AlphaOf(processing, v) ==
    LET value == Average(v)
    IN  Alpha(IF processing \in {"t", "#"} THEN Thin(value) ELSE value)

RECURSIVE SumSeq(_, _)
SumSeq(f, n) == IF n = 0 THEN 0 ELSE f[n] + SumSeq(f, n - 1)

\* blur, summed over the pixels of the tile (0 unless optimizing)
Blur(values, tileWidth, tileHeight, optimizing) ==
    IF ~optimizing THEN 0
    ELSE LET rowBlur == [y \in 1 .. tileHeight |->
                 SumSeq([x \in 1 .. tileWidth |-> BlurOf(Average(values[y - 1][x - 1]))],
                        tileWidth)]
         IN  SumSeq(rowBlur, tileHeight)


\* ------------------------------------------------------------------------
\* xorshift64s and noise.  A uint64_t is held as its 64 bits, bit 0 first.

Bits == 0 .. 63
Word(n) == Table([i \in Bits |-> IF i > 30 THEN 0 ELSE (n \div (2 ^ i)) % 2])   \* 0 <= n < 2^31

Shr(x, k) == [i \in Bits |-> IF i + k <= 63 THEN x[i + k] ELSE 0]
Shl(x, k) == [i \in Bits |-> IF i - k >= 0 THEN x[i - k] ELSE 0]
Xor(x, y) == Table([i \in Bits |-> (x[i] + y[i]) % 2])

\* The byte j (0 the lowest) of a word.
ByteOf(x, j) ==
    x[8 * j] + 2 * x[8 * j + 1] + 4 * x[8 * j + 2] + 8 * x[8 * j + 3]
    + 16 * x[8 * j + 4] + 32 * x[8 * j + 5] + 64 * x[8 * j + 6] + 128 * x[8 * j + 7]

\* 0x2545f4914f6cdd1d, bytes from the lowest
Multiplier == << 29, 221, 108, 79, 145, 244, 69, 37 >>

\* Column k of the long multiplication x * Multiplier: the products of the
\* bytes whose weights add to 256^k.
Column(xb, k) ==
    LET term(i) == xb[i + 1] * Multiplier[k - i + 1]
        F[i \in -1 .. k] == IF i < 0 THEN 0 ELSE term(i) + F[i - 1]
    IN  F[k]

\* The bytes of (x * Multiplier) mod 2^64, from the lowest.
Product(x) ==
    LET xb == [j \in 1 .. 8 |-> ByteOf(x, j - 1)]
        \* sum[k]: column k plus the carry out of column k - 1
        sum[k \in 0 .. 7] == Column(xb, k) + (IF k = 0 THEN 0 ELSE sum[k - 1] \div 256)
    IN  [j \in 1 .. 8 |-> sum[j - 1] % 256]

\* x ^= x >> 12; x ^= x << 25; x ^= x >> 27; *state = x; return x * 0x2545f4914f6cdd1d
\* The new state and the bytes of the value returned.
xorshift64s(state) ==
    LET x1 == Xor(state, Shr(state, 12))
        x2 == Xor(x1, Shl(x1, 25))
        x3 == Xor(x2, Shr(x2, 27))
    IN  [state |-> x3, value |-> Product(x3)]

\* (xorshift64s(state) >> 54) + 0x100000280: counter 1, sum 0x280 + the top
\* ten bits.
NoiseOf(value) == << 1, 640 + value[8] * 4 + value[7] \div 64 >>

\* xorshift64s(&state) % m, for 0 < m < 2^23
Modulo(value, m) ==
    LET R[j \in 1 .. 9] == IF j = 9 THEN 0 ELSE (R[j + 1] * 256 + value[j]) % m
    IN  R[1]

SEED == 1234567

\* ------------------------------------------------------------------------
\* prepareTile: floor dust.  The loops run on the record
\* [state, v, idx]: the generator, the accumulator, the array of indexes.

\* values[y][x] = noise(&state)
Speck(d, x, y) ==
    LET r == xorshift64s(d.state)
    IN  [d EXCEPT !.state = r.state, !.v[y][x] = NoiseOf(r.value)]

\* stitch edges together
StitchEdges(d, tileWidth, tileHeight) ==
    LET w == tileWidth - 2
        h == tileHeight - 2
        Top(a, n) == Speck(a, 4 * n, 0)
        Left(a, n) == Speck(a, 0, 4 * n)
        Bottom(a, n) == Speck(a, 2 + 4 * n, h + 1)
        Right(a, n) == Speck(a, w + 1, 2 + 4 * n)
        d1 == Loop(Top, d, 0, (w + 3) \div 4)
        d2 == Loop(Left, d1, 0, (h + 3) \div 4)
        d3 == Loop(Bottom, d2, 0, (w + 1) \div 4)
    IN  Loop(Right, d3, 0, (h + 1) \div 4)

\* shuffle the array: j = xorshift64s(&state) % (w * h - i) + i; swap idx[i], idx[j]
Shuffle(d, n) ==
    LET Swap(a, i) ==
            LET r == xorshift64s(a.state)
                j == Modulo(r.value, n - i) + i
            IN  [a EXCEPT !.state = r.state, !.idx[i] = a.idx[j], !.idx[j] = a.idx[i]]
    IN  Loop(Swap, d, 0, n - 1)

Lit(v, x, y) == v[y][x] # Zero

\* A variant that looks at the 4 neighbours in the row and the column only.
FillCenterPlus(d, tileWidth, tileHeight) ==
    LET w == tileWidth - 2
        h == tileHeight - 2
        Dot(a, i) ==
            LET x == 1 + (a.idx[i] % w)
                y == 1 + (a.idx[i] \div w)
            IN  IF \E dx \in {-1, 0, 1}, dy \in {-1, 0, 1} :
                       (dx = 0) # (dy = 0) /\ Lit(a.v, x + dx, y + dy)
                THEN a
                ELSE Speck(a, x, y)
    IN  Loop(Dot, d, 0, w * h)

\* fill center with isolated dots: a pixel is lit if none of its 8 neighbours is
FillCenter(d, tileWidth, tileHeight) ==
    LET w == tileWidth - 2
        h == tileHeight - 2
        Dot(a, i) ==
            LET x == 1 + (a.idx[i] % w)
                y == 1 + (a.idx[i] \div w)
            IN  IF \E dx \in {-1, 0, 1}, dy \in {-1, 0, 1} :
                       << dx, dy >> # << 0, 0 >> /\ Lit(a.v, x + dx, y + dy)
                THEN a
                ELSE Speck(a, x, y)
    IN  Loop(Dot, d, 0, w * h)

\* add floor dust: the accumulator after the pass
FloorDust(values, tileWidth, tileHeight) ==
    LET n == (tileWidth - 2) * (tileHeight - 2)
        d0 == [state |-> Word(SEED), v |-> values, idx |-> Table([i \in 0 .. n - 1 |-> i])]
        d1 == StitchEdges(d0, tileWidth, tileHeight)
        d2 == Shuffle(d1, n)
    IN  FillCenter(d2, tileWidth, tileHeight).v

\* ------------------------------------------------------------------------
\* prepareTile: wall tops, diagonal sine waves

\* Number of sine waves that can fit in the tile
NumHorizWaves(baseW) == Max(2, Min(6, CRound(Max(1, baseW), 4)))
NumVertWaves(baseH) == Max(2, Min(11, CRound(Max(1, baseH), 4)))

\* sin(2 PI n / d) in thousandths, for 0 <= n < d, again by Bhaskara's
\* approximation of the half wave (t in thousandths of the half period).
SinMilli(n, d) ==
    LET half == IF 2 * n < d THEN 2 * n ELSE 2 * n - d
        t == (half * 1000) \div d
        p == t * (1000 - t)
        s == (4 * p) \div ((5000000 - 4 * p) \div 1000)
    IN  IF 2 * n < d THEN s ELSE -s

\* (uint64_t)round(255 * 255 * value * value) with value = sin(...) / 2 + 0.5
Wave(x, y, tileWidth, tileHeight, numHorizWaves, numVertWaves) ==
    LET d == tileWidth * tileHeight
        n == (x * numHorizWaves * tileHeight + y * numVertWaves * tileWidth) % d
        a == (255 * (1000 + SinMilli(n, d))) \div 20
    IN  CRound(a * a, 10000)

\* A variant that paints every row of every wall top.
WaveRowsAll(values, row, tileHeight) == tileHeight

\* The rows the loop paints, 0 .. WaveRows - 1: all of them for the cell of
\* row 21; for the others the loop breaks at the first y with
\* y > tileHeight / 2 or with a nonzero sum in values[y * tileWidth].
WaveRows(values, row, tileHeight) ==
    LET breaks == {y \in 0 .. tileHeight - 1 :
                      row # 21 /\ (y > tileHeight \div 2 \/ values[y][0][2] # 0)}
    IN  IF breaks = {} THEN tileHeight
        ELSE CHOOSE y \in breaks : \A z \in breaks : y <= z

WallTop(values, row, tileWidth, tileHeight, baseW, baseH) ==
    LET rows == WaveRows(values, row, tileHeight)
    IN  Table([y \in 0 .. tileHeight - 1 |-> [x \in 0 .. tileWidth - 1 |->
            IF y < rows
            THEN << 1, Wave(x, y, tileWidth, tileHeight,
                            NumHorizWaves(baseW), NumVertWaves(baseH)) >>
            ELSE values[y][x]]])

\* ------------------------------------------------------------------------
\* prepareTile

\* tileShifts is a static array, zero until it is written; the model holds the
\* entries that were written, as a function from << row, column, axis, size >>
\* (axis 0 horizontal, 1 vertical; size = index + 1) to the three shifts.
ShiftsOf(table, row, column, axis, size) ==
    IF << row, column, axis, size >> \in DOMAIN table
    THEN table[<< row, column, axis, size >>] ELSE NoShifts

\* shifts = (glyphSize > MAX_TILE_SIZE ? noShifts : tileShifts[row][column][axis][glyphSize - 1])
LookupShifts(table, row, column, axis, glyphSize) ==
    IF glyphSize > MAX_TILE_SIZE THEN NoShifts ELSE ShiftsOf(table, row, column, axis, glyphSize)

\* The accumulator after "downscale source tile to accumulator".
\* in: [c, row, column, padding, empty, table, tileWidth, tileHeight,
\*      baseTileWidth, baseTileHeight, optimizing, before]
\* v: the pixels; ub: a write outside the buffer; range: every write in the
\* columns 0 .. tileWidth-1 of its row.
Downscaled(in) ==
    LET processing == Processing(in.row, in.column)
        g == GlyphSize(processing, in.padding, in.optimizing, in.tileWidth, in.tileHeight,
                       in.baseTileWidth, in.baseTileHeight)
        sh == LookupShifts(in.table, in.row, in.column, 0, g.glyphWidth)
        sv == LookupShifts(in.table, in.row, in.column, 1, g.glyphHeight)
        sx == ScaledX(g.fitWidth, g.glyphWidth, sh)
        sy == ScaledY(processing, in.padding, g.fitHeight, g.glyphHeight, sv)
        cols == {sx[x] : x \in 0 .. TILE_WIDTH - 1}
        offsets == Offsets(cols, in.tileWidth)
        adds == Table([kind \in {1, 2} |-> RowAdd(in.c, sx, KindRow(in.c, kind), cols)])
        start == [rows |-> NoRows(offsets, in.tileHeight), ub |-> FALSE]
        end == Downscale(start, in.c, sy, offsets, in.tileHeight, in.before)
        mapped == \E y0 \in 0 .. TILE_HEIGHT - 1 : sy[y0] >= 0 /\ sy[y0] < in.tileHeight
    IN  IF in.empty
        THEN [v |-> [y \in 0 .. in.tileHeight - 1 |-> [x \in 0 .. in.tileWidth - 1 |-> Zero]],
              ub |-> FALSE, range |-> TRUE]
        ELSE [v |-> Values(end.rows, adds, offsets, in.tileWidth, in.tileHeight),
              ub |-> end.ub,
              range |-> ~mapped \/ cols \subseteq 0 .. in.tileWidth - 1]

\* A variant that scatters the floor dust over the area the glyph must fit
\* into (the base tile size) instead of the tile.
AugmentedFit(in) ==
    Let(Downscaled(in), LAMBDA acc :
        Let(IF IsFloor(in.row, in.column) /\ in.empty
               /\ in.baseTileWidth > 2 /\ in.baseTileHeight > 2 /\ ~in.optimizing
            THEN FloorDust(acc.v, Max(1, in.baseTileWidth), Max(1, in.baseTileHeight))
            ELSE acc.v,
            LAMBDA dusted :
                [acc EXCEPT !.v = IF IsWallTop(in.row, in.column) /\ ~in.optimizing
                                  THEN WallTop(dusted, in.row, in.tileWidth, in.tileHeight,
                                               in.baseTileWidth, in.baseTileHeight)
                                  ELSE dusted]))

\* The accumulator after the two procedural passes, with the flags of the
\* downscaling.
Augmented(in) ==
    Let(Downscaled(in), LAMBDA acc :
        Let(IF IsFloor(in.row, in.column) /\ in.empty
               /\ in.tileWidth > 2 /\ in.tileHeight > 2 /\ ~in.optimizing
            THEN FloorDust(acc.v, in.tileWidth, in.tileHeight)
            ELSE acc.v,
            LAMBDA dusted :
                [acc EXCEPT !.v = IF IsWallTop(in.row, in.column) /\ ~in.optimizing
                                  THEN WallTop(dusted, in.row, in.tileWidth, in.tileHeight,
                                               in.baseTileWidth, in.baseTileHeight)
                                  ELSE dusted]))

\* The result of a call: the alpha channel written to the surface, the
\* counters of the accumulator, the blur returned, whether a write left the
\* buffer (ub) and whether every write of the downscaling stayed in the
\* columns of its row (range).
Surface(in, acc) ==
    [alpha |-> Table([y \in 0 .. in.tileHeight - 1 |-> [x \in 0 .. in.tileWidth - 1 |->
                    AlphaOf(Processing(in.row, in.column), acc.v[y][x])]]),
     count |-> Table([y \in 0 .. in.tileHeight - 1 |-> [x \in 0 .. in.tileWidth - 1 |->
                    acc.v[y][x][1]]]),
     blur |-> Blur(acc.v, in.tileWidth, in.tileHeight, in.optimizing),
     ub |-> acc.ub,
     range |-> acc.range]

prepareTile(args) ==
    Let(args, LAMBDA in : Let(Augmented(in), LAMBDA acc : Surface(in, acc)))

\* ========================================================================
\* The program as a state machine

\* The screen grid of the game: COLS and ROWS of Rogue.h, which tiles.c
\* includes; the model takes the grid of the game as it is released.
COLS == 100
ROWS == 34

VARIABLES
    build,            \* which tiles.c the program is built from: "new" or "old"
    atlas,            \* assets/tiles.png: the content of the cells that are not transparent
    file,             \* assets/tiles.bin: [present, bytes]
    origin,           \* the table the file was written from, while the file is that one
    TilesPNG,         \* the loaded image: FALSE is NULL
    tileEmpty,
    tilePadding,
    tileShifts,       \* << row, column, axis, size >> -> the three shifts; zero where absent
    baseTileWidth,
    baseTileHeight,
    numTextures,
    currentRenderer,  \* static of loadTiles ("old"); 0 is NULL
    Textures,
    screenTiles,      \* << row, column >> -> ScreenTile; zero where absent
    Win,              \* the window: FALSE is NULL
    display,          \* the renderer of the window and its output size
    pc,               \* "idle", or "optimizeTiles" while updateScreen is inside the calibration
    cursor,           \* position of optimizeTiles in its loops
    process,          \* what has happened since the process started
    trace,            \* what the last step did
    frame,            \* the foreground blits of the last updateScreen
    call,             \* arguments of a prepareTile call taken in isolation
    result            \* and what that call produced

vars == << build, atlas, file, origin, TilesPNG, tileEmpty, tilePadding, tileShifts,
           baseTileWidth, baseTileHeight, numTextures, currentRenderer, Textures,
           screenTiles, Win, display, pc, cursor, process, trace, frame, call, result >>

\* ------------------------------------------------------------------------
\* Inputs of the model

\* Cells of each processing mode that the atlases below fill.
FitCell == << 0, 0 >>
TextCell == << 4, 1 >>
StretchCell == << 16, 4 >>

\* The atlases: all cells transparent; an 'f' cell, a 't' cell and an 's'
\* cell drawn.
Atlases ==
    { << >>,
      [c \in {FitCell, TextCell, StretchCell} |->
          IF c = FitCell THEN Content(93, 104, 186, 211, 255)
          ELSE IF c = TextCell THEN Content(30, 90, 40, 186, 255)
          ELSE Content(60, 71, 100, 121, 200)] }

CellContent(a, row, column) ==
    IF << row, column >> \in DOMAIN a THEN a[<< row, column >>] ELSE Blank

\* Output sizes the window is given: none (a hidden window); smaller than the
\* grid; a multiple of the grid; cells of two widths and heights; cells of
\* MAX_TILE_SIZE and more.
OutputSizes ==
    { << 0, 0 >>, << 50, 20 >>, << 800, 340 >>, << 850, 350 >>,
      << 64 * COLS, 340 >>, << 850, 64 * ROWS + 16 >> }

\* The output sizes the window can take before the first frame is drawn.
StartSizes == { << 850, 350 >> }

\* The same, in the launches that are followed to the first frame alone.
LaunchSizes == { << 850, 350 >>, << MAX_TILE_SIZE * COLS, (MAX_TILE_SIZE + 1) * ROWS >> }

Renderers == {1, 2}

\* A cache file left by something else than this program.
ForeignBytes == [k \in {<< 0, 0, 0, 4 >>} |-> << 200, 127, 128 >>]

\* ------------------------------------------------------------------------
\* The cache file

ToByte(v) == (v + 256) % 256

\* fwrite(tileShifts, 1, sizeof(tileShifts), file)
Written(table) == [k \in DOMAIN table |-> << ToByte(table[k][1]), ToByte(table[k][2]), ToByte(table[k][3]) >>]

\* fread(tileShifts, 1, sizeof(tileShifts), file)
Read(bytes) == [k \in DOMAIN bytes |-> << ToInt8(bytes[k][1]), ToInt8(bytes[k][2]), ToInt8(bytes[k][3]) >>]

Entry(table, k) == IF k \in DOMAIN table THEN table[k] ELSE NoShifts

\* The same array of signed bytes.
SameTable(a, b) == \A k \in DOMAIN a \cup DOMAIN b : Entry(a, k) = Entry(b, k)

NoFile == [present |-> FALSE, bytes |-> << >>]
NoOrigin == [known |-> FALSE, table |-> << >>]

\* ------------------------------------------------------------------------
\* Initial state: the statics of tiles.c as the loader leaves them.

NULL == [null |-> TRUE, renderer |-> 0, tileWidth |-> 0, tileHeight |-> 0]
NoCursor == [row |-> 0, column |-> 0, axis |-> 0, size |-> 0, pass |-> 0, idx |-> 0, done |-> TRUE]
NoCall == [c |-> Blank, row |-> 0, column |-> 0, padding |-> 0, empty |-> TRUE, table |-> << >>,
           tileWidth |-> 0, tileHeight |-> 0, baseTileWidth |-> 0, baseTileHeight |-> 0,
           optimizing |-> FALSE, before |-> 0]
NoResult == [made |-> FALSE, failed |-> FALSE, alpha |-> << >>, count |-> << >>, range |-> TRUE]
\* calls: the calibrating calls of prepareTile made so far, for each cell and
\* axis calibrated.
Started == [optimized |-> 0, rendered |-> FALSE, opened |-> "not yet", failed |-> FALSE,
            calls |-> << >>]
Quiet(op) ==
    [op |-> op, args |-> << >>, rebuilt |-> FALSE, prepared |-> 0, before |-> 0, after |-> 0,
     shift |-> << 0, 0 >>]

Statics ==
    /\ TilesPNG = FALSE
    /\ tileEmpty = [c \in Cells |-> FALSE]
    /\ tilePadding = [c \in Cells |-> 0]
    /\ tileShifts = << >>
    /\ baseTileWidth = -1
    /\ baseTileHeight = -1
    /\ numTextures = 0
    /\ currentRenderer = 0
    /\ Textures = [i \in 0 .. 3 |-> NULL]
    /\ screenTiles = << >>
    /\ Win = FALSE

Init ==
    /\ build \in {"new", "old"}
    /\ atlas \in Atlases
    /\ file \in {NoFile, [present |-> TRUE, bytes |-> ForeignBytes]}
    /\ origin = NoOrigin
    /\ Statics
    /\ display = [renderer |-> 1, width |-> 0, height |-> 0]
    /\ pc = "idle"
    /\ cursor = NoCursor
    /\ process = Started
    /\ trace = Quiet("start")
    /\ frame = {}
    /\ call = NoCall
    /\ result = NoResult

\* ------------------------------------------------------------------------
\* init: "measure padding"

Measured(a) ==
    [empty |-> [c \in Cells |-> c \notin DOMAIN a \/ isTileEmpty(a[c])],
     padding |-> [c \in Cells |->
         IF Processing(c[1], c[2]) = "f"
         THEN (IF c \in DOMAIN a THEN getPadding(a[c]) ELSE TILE_HEIGHT \div 4)
         ELSE 0]]

\* ------------------------------------------------------------------------
\* loadTiles.  g holds the statics the function works on:
\* [baseTileWidth, baseTileHeight, numTextures, currentRenderer, Textures].

Globals ==
    [baseTileWidth |-> baseTileWidth, baseTileHeight |-> baseTileHeight,
     numTextures |-> numTextures, currentRenderer |-> currentRenderer, Textures |-> Textures]

\* A texture made by renderer from a surface of tiles of the given size.
Texture(renderer, tileWidth, tileHeight) ==
    [null |-> FALSE, renderer |-> renderer, tileWidth |-> tileWidth, tileHeight |-> tileHeight]

WiderBy(i) == IF i = 1 \/ i = 3 THEN 1 ELSE 0
HigherBy(i) == IF i = 2 \/ i = 3 THEN 1 ELSE 0

\* A variant that leaves a tile size of zero as it is.
NewBaseUnfloored(outputWidth, outputHeight) ==
    LET n == outputWidth * ROWS
        d == outputHeight * COLS
        w0 == outputWidth \div COLS
        h0 == outputHeight \div ROWS
        high == h0 >= MAX_TILE_SIZE
        h1 == IF high THEN TILE_HEIGHT ELSE h0
        w1 == IF high THEN CRound(TILE_HEIGHT * n, d) ELSE w0
        wide == w1 >= MAX_TILE_SIZE
        w2 == IF wide THEN TILE_WIDTH ELSE w1
        h2 == IF wide THEN CRound(TILE_WIDTH * d, n) ELSE h1
    IN  << w2, h2 >>

\* "choose tile size" ("new"); tileAspectRatio is the fraction
\* outputWidth * ROWS / (outputHeight * COLS).
NewBase(outputWidth, outputHeight) ==
    LET n == outputWidth * ROWS
        d == outputHeight * COLS
        w0 == outputWidth \div COLS
        h0 == outputHeight \div ROWS
        high == h0 >= MAX_TILE_SIZE
        h1 == IF high THEN TILE_HEIGHT ELSE h0
        w1 == IF high THEN CRound(TILE_HEIGHT * n, d) ELSE w0
        wide == w1 >= MAX_TILE_SIZE
        w2 == IF wide THEN TILE_WIDTH ELSE w1
        h2 == IF wide THEN CRound(TILE_WIDTH * d, n) ELSE h1
    IN  << IF w2 = 0 THEN 1 ELSE w2, IF h2 = 0 THEN 1 ELSE h2 >>

\* A variant that builds Textures[0] alone whatever the base size.
loadTilesNewSingle(g, renderer, outputWidth, outputHeight) ==
    LET base == NewBase(outputWidth, outputHeight)
    IN  IF g.baseTileWidth = base[1] /\ g.baseTileHeight = base[2]
        THEN [g |-> g, rebuilt |-> FALSE, prepared |-> 0]
        ELSE [g |-> [baseTileWidth |-> base[1], baseTileHeight |-> base[2],
                     numTextures |-> 1, currentRenderer |-> g.currentRenderer,
                     Textures |-> [i \in 0 .. 3 |->
                         IF i < 1 THEN Texture(renderer, base[1], base[2]) ELSE NULL]],
              rebuilt |-> TRUE,
              prepared |-> TILE_ROWS * TILE_COLS]

\* The statics after the call, whether it rebuilt, and the number of
\* prepareTile calls it made.
loadTilesNew(g, renderer, outputWidth, outputHeight) ==
    LET base == NewBase(outputWidth, outputHeight)
        n == IF base[1] >= MAX_TILE_SIZE \/ base[2] >= MAX_TILE_SIZE THEN 1 ELSE 4
    IN  IF g.baseTileWidth = base[1] /\ g.baseTileHeight = base[2]
        THEN [g |-> g, rebuilt |-> FALSE, prepared |-> 0]
        ELSE [g |-> [baseTileWidth |-> base[1], baseTileHeight |-> base[2],
                     numTextures |-> n, currentRenderer |-> g.currentRenderer,
                     Textures |-> [i \in 0 .. 3 |->
                         IF i < n
                         THEN Texture(renderer, base[1] + WiderBy(i), base[2] + HigherBy(i))
                         ELSE NULL]],
              rebuilt |-> TRUE,
              prepared |-> n * TILE_ROWS * TILE_COLS]

\* A variant that compares the base size alone.
loadTilesOldBySize(g, renderer, outputWidth, outputHeight) ==
    LET w == outputWidth \div COLS
        h == outputHeight \div ROWS
        built == {i \in 0 .. 3 : (w + WiderBy(i)) * TILE_COLS # 0 /\ (h + HigherBy(i)) * TILE_ROWS # 0}
    IN  IF g.baseTileWidth = w /\ g.baseTileHeight = h
        THEN [g |-> g, rebuilt |-> FALSE, prepared |-> 0]
        ELSE [g |-> [baseTileWidth |-> w, baseTileHeight |-> h,
                     numTextures |-> g.numTextures, currentRenderer |-> renderer,
                     Textures |-> [i \in 0 .. 3 |->
                         IF i \in built
                         THEN Texture(renderer, w + WiderBy(i), h + HigherBy(i))
                         ELSE NULL]],
              rebuilt |-> TRUE,
              prepared |-> Cardinality(built) * TILE_ROWS * TILE_COLS]

loadTilesOld(g, renderer, outputWidth, outputHeight) ==
    LET w == outputWidth \div COLS
        h == outputHeight \div ROWS
        built == {i \in 0 .. 3 : (w + WiderBy(i)) * TILE_COLS # 0 /\ (h + HigherBy(i)) * TILE_ROWS # 0}
    IN  IF g.currentRenderer = renderer /\ g.baseTileWidth = w /\ g.baseTileHeight = h
        THEN [g |-> g, rebuilt |-> FALSE, prepared |-> 0]
        ELSE [g |-> [baseTileWidth |-> w, baseTileHeight |-> h,
                     numTextures |-> g.numTextures, currentRenderer |-> renderer,
                     Textures |-> [i \in 0 .. 3 |->
                         IF i \in built
                         THEN Texture(renderer, w + WiderBy(i), h + HigherBy(i))
                         ELSE NULL]],
              rebuilt |-> TRUE,
              prepared |-> Cardinality(built) * TILE_ROWS * TILE_COLS]

\* A variant that forgets the current base size, and so rebuilds every time.
loadTilesAnew(g, renderer, outputWidth, outputHeight) ==
    IF build = "new"
    THEN loadTilesNew([g EXCEPT !.baseTileWidth = -1], renderer, outputWidth, outputHeight)
    ELSE loadTilesOld([g EXCEPT !.baseTileWidth = -1], renderer, outputWidth, outputHeight)

\* Whether prepareTile indexes tileShifts with a glyph size: the newer one
\* takes noShifts for a size above MAX_TILE_SIZE, the older one has
\* shifts = tileShifts[row][column][axis][glyphSize - 1] for every size.
Indexed(glyphSize) == build = "old" \/ ~(glyphSize > MAX_TILE_SIZE)

\* The part of loadTiles after "if (TilesPNG == NULL) init();"
loadTiles(g, renderer, outputWidth, outputHeight) ==
    IF build = "new"
    THEN loadTilesNew(g, renderer, outputWidth, outputHeight)
    ELSE loadTilesOld(g, renderer, outputWidth, outputHeight)

\* ------------------------------------------------------------------------
\* updateScreen: the loop over the screen cells

\* A variant that always takes Textures[0].
getTextureFirst(g, tileWidth, tileHeight) == 0

\* Textures[(tileWidth > baseTileWidth ? 1 : 0) + (tileHeight > baseTileHeight ? 2 : 0)]
getTexture(g, tileWidth, tileHeight) ==
    (IF tileWidth > g.baseTileWidth THEN 1 ELSE 0) + (IF tileHeight > g.baseTileHeight THEN 2 ELSE 0)

NoTile == [charIndex |-> 0, foreRed |-> 0, foreGreen |-> 0, foreBlue |-> 0,
           backRed |-> 0, backGreen |-> 0, backBlue |-> 0]

ScreenTile(tiles, y, x) == IF << y, x >> \in DOMAIN tiles THEN tiles[<< y, x >>] ELSE NoTile

\* Whether the foreground of a glyph is blended.
Blended(empty, tileRow, tileColumn) ==
    \/ ~empty[<< tileRow, tileColumn >>]
    \/ build = "old" /\ tileRow = 16 /\ tileColumn = 2
    \/ tileRow = 21 /\ tileColumn = 1
    \/ build = "old" /\ tileRow = 22 /\ tileColumn = 4
    \/ tileRow = 20 /\ tileColumn = 2

\* One SDL_RenderCopy: the glyph, the destination size, the texture and its
\* source rectangle's size, and the tile size that texture was rasterized for.
Blit(g, tile, i, w, h, srcW, srcH) ==
    [charIndex |-> tile.charIndex,
     w |-> w, h |-> h, texture |-> i, srcW |-> srcW, srcH |-> srcH,
     tileWidth |-> g.Textures[i].tileWidth, tileHeight |-> g.Textures[i].tileHeight,
     renderer |-> g.Textures[i].renderer, null |-> g.Textures[i].null]

\* The foreground blit of one screen cell showing tile in a destination of
\* w x h pixels, if it has one.
BlitsOf(g, empty, tile, w, h) ==
    LET i == getTexture(g, w, h)
        drawn == /\ Blended(empty, tile.charIndex \div 16, tile.charIndex % 16)
                 /\ IF build = "new" THEN w # 0 /\ h # 0 ELSE ~g.Textures[i].null
    IN  IF ~drawn THEN {}
        ELSE IF build = "new" /\ g.numTextures # 4
        THEN {Blit(g, tile, 0, w, h, g.baseTileWidth, g.baseTileHeight)}
        ELSE {Blit(g, tile, i, w, h, w, h)}

\* The foreground blits of a frame: the loop over the screen cells.  The
\* cells that updateTile never wrote all hold the same ScreenTile, so they
\* are taken together by destination size.
Blits(g, empty, tiles, outputWidth, outputHeight) ==
    LET width == Table([x \in 0 .. COLS - 1 |->
                    ((x + 1) * outputWidth) \div COLS - (x * outputWidth) \div COLS])
        height == Table([y \in 0 .. ROWS - 1 |->
                    ((y + 1) * outputHeight) \div ROWS - (y * outputHeight) \div ROWS])
        unwritten == {s \in {width[x] : x \in 0 .. COLS - 1} \X {height[y] : y \in 0 .. ROWS - 1} :
                        \E y \in 0 .. ROWS - 1, x \in 0 .. COLS - 1 :
                            /\ << y, x >> \notin DOMAIN tiles
                            /\ width[x] = s[1] /\ height[y] = s[2]}
    IN  UNION ( {BlitsOf(g, empty, tiles[c], width[c[2]], height[c[1]]) : c \in DOMAIN tiles}
                \cup {BlitsOf(g, empty, NoTile, s[1], s[2]) : s \in unwritten} )

\* ------------------------------------------------------------------------
\* optimizeTiles.  The model calibrates the sizes 5 .. LastWidth of the
\* horizontal loop and 7 .. LastHeight of the vertical loop.

LastWidth == 5
LastHeight == 7

FirstSize(axis) == IF axis = 0 THEN 5 ELSE 7
LastSize(axis) == IF axis = 0 THEN Min(MAX_TILE_SIZE, LastWidth) ELSE Min(MAX_TILE_SIZE, LastHeight)

\* A variant that searches the three shifts of every cell.
SearchedAll(processing, axis) == 3

\* for (idx = 0; idx < (...); idx++): the number of shifts searched
Searched(processing, axis) ==
    IF axis = 0
    THEN (IF processing = "t" \/ processing = "#" THEN 2 ELSE 3)
    ELSE (IF processing = "t" THEN 1 ELSE 3)

CellAt(i) == << i \div TILE_COLS, i % TILE_COLS >>

\* A variant that passes over the stretch cells as well as the empty ones.
CellFromUnstretched(empty, i) ==
    LET left == {j \in i .. TILE_ROWS * TILE_COLS - 1 :
                    ~empty[CellAt(j)] /\ Processing(CellAt(j)[1], CellAt(j)[2]) # "s"}
        j == CHOOSE m \in left : \A k \in left : m <= k
    IN  IF left = {} THEN NoCursor
        ELSE [row |-> CellAt(j)[1], column |-> CellAt(j)[2], axis |-> 0,
              size |-> FirstSize(0), pass |-> 0, idx |-> 0, done |-> FALSE]

\* The first cell at or after index i that is not empty, as a cursor.
CellFrom(empty, i) ==
    LET left == {j \in i .. TILE_ROWS * TILE_COLS - 1 : ~empty[CellAt(j)]}
        j == CHOOSE m \in left : \A k \in left : m <= k
    IN  IF left = {} THEN NoCursor
        ELSE [row |-> CellAt(j)[1], column |-> CellAt(j)[2], axis |-> 0,
              size |-> FirstSize(0), pass |-> 0, idx |-> 0, done |-> FALSE]

\* The loop position after the search at cur.
NextStep(empty, cur) ==
    IF cur.idx + 1 < Searched(Processing(cur.row, cur.column), cur.axis)
    THEN [cur EXCEPT !.idx = cur.idx + 1]
    ELSE IF cur.pass + 1 < 3
    THEN [cur EXCEPT !.pass = cur.pass + 1, !.idx = 0]
    ELSE IF cur.size + 1 <= LastSize(cur.axis)
    THEN [cur EXCEPT !.size = cur.size + 1, !.pass = 0, !.idx = 0]
    ELSE IF cur.axis = 0
    THEN [cur EXCEPT !.axis = 1, !.size = FirstSize(1), !.pass = 0, !.idx = 0]
    ELSE CellFrom(empty, cur.row * TILE_COLS + cur.column + 1)

Put(table, k, shifts) == [j \in DOMAIN table \cup {k} |-> IF j = k THEN shifts ELSE table[j]]

\* A variant that rounds the midpoint down.
TriedFloor(processing, axis, shifts, idx, shift) ==
    LET s == [shifts EXCEPT ![idx + 1] = shift]
    IN  IF axis = 0 /\ (processing = "t" \/ processing = "#")
        THEN [s EXCEPT ![3] = (s[1] + s[2]) \div 2]
        ELSE s

\* A variant that derives the third shift on both axes.
TriedOnBothAxes(processing, axis, shifts, idx, shift) ==
    LET s == [shifts EXCEPT ![idx + 1] = shift]
    IN  IF processing = "t" \/ processing = "#"
        THEN [s EXCEPT ![3] = CDiv(s[1] + s[2], 2)]
        ELSE s

\* shifts[idx] = shift; and for 't' and '#', horizontally,
\* shifts[2] = (shifts[0] + shifts[1]) / 2
Tried(processing, axis, shifts, idx, shift) ==
    LET s == [shifts EXCEPT ![idx + 1] = shift]
    IN  IF axis = 0 /\ (processing = "t" \/ processing = "#")
        THEN [s EXCEPT ![3] = CDiv(s[1] + s[2], 2)]
        ELSE s

\* The calibrating call of the search at cur with the given shifts.
Calibrating(a, padding, table, cur, shifts) ==
    [c |-> CellContent(a, cur.row, cur.column), row |-> cur.row, column |-> cur.column,
     padding |-> padding[<< cur.row, cur.column >>], empty |-> FALSE,
     table |-> Put(table, << cur.row, cur.column, cur.axis, cur.size >>, shifts),
     tileWidth |-> IF cur.axis = 0 THEN cur.size ELSE MAX_TILE_SIZE,
     tileHeight |-> IF cur.axis = 0 THEN MAX_TILE_SIZE ELSE cur.size,
     baseTileWidth |-> IF cur.axis = 0 THEN cur.size ELSE MAX_TILE_SIZE,
     baseTileHeight |-> IF cur.axis = 0 THEN MAX_TILE_SIZE ELSE cur.size,
     optimizing |-> TRUE, before |-> -1]

\* A variant that scans the 9 shifts around midShift.
SearchNarrow(a, padding, table, cur) ==
    LET processing == Processing(cur.row, cur.column)
        old == Entry(table, << cur.row, cur.column, cur.axis, cur.size >>)
        midShift == IF cur.idx = 2 THEN CDiv(old[1] + old[2], 2) ELSE 0
        window == (midShift - 4) .. (midShift + 4)
        BlurOfShifts(s) == prepareTile(Calibrating(a, padding, table, cur, s)).blur
        Best(blur) == CHOOSE shift \in window :
                        /\ \A other \in window : blur[shift] <= blur[other]
                        /\ \A other \in window : other < shift => blur[shift] < blur[other]
    IN  Let([old |-> BlurOfShifts(old),
             scan |-> Table([shift \in window |->
                         BlurOfShifts(Tried(processing, cur.axis, old, cur.idx, shift))])],
            LAMBDA blur :
                Let(Best(blur.scan), LAMBDA bestShift :
                    [shifts |-> Tried(processing, cur.axis, old, cur.idx, bestShift),
                     before |-> blur.old,
                     after |-> blur.scan[bestShift],
                     calls |-> Cardinality(DOMAIN blur.scan),
                     shift |-> << midShift - 5, midShift + 5 + 1 >>]))

\* One search: the scan of the 11 shifts around midShift for one idx.
\* shifts: the entry when the scan ends; before, after: the blur of the entry
\* as it was and as it is left; calls: the calls of prepareTile the scan
\* makes; shift: the first and the last value of the loop variable 'shift',
\* the last being the one that ends the loop.
Search(a, padding, table, cur) ==
    LET processing == Processing(cur.row, cur.column)
        old == Entry(table, << cur.row, cur.column, cur.axis, cur.size >>)
        midShift == IF cur.idx = 2 THEN CDiv(old[1] + old[2], 2) ELSE 0
        window == (midShift - 5) .. (midShift + 5)
        BlurOfShifts(s) == prepareTile(Calibrating(a, padding, table, cur, s)).blur
        Best(blur) == CHOOSE shift \in window :
                        /\ \A other \in window : blur[shift] <= blur[other]
                        /\ \A other \in window : other < shift => blur[shift] < blur[other]
    IN  Let([old |-> BlurOfShifts(old),
             scan |-> Table([shift \in window |->
                         BlurOfShifts(Tried(processing, cur.axis, old, cur.idx, shift))])],
            LAMBDA blur :
                Let(Best(blur.scan), LAMBDA bestShift :
                    [shifts |-> Tried(processing, cur.axis, old, cur.idx, bestShift),
                     before |-> blur.old,
                     after |-> blur.scan[bestShift],
                     calls |-> Cardinality(DOMAIN blur.scan),
                     shift |-> << midShift - 5, midShift + 5 + 1 >>]))

\* ------------------------------------------------------------------------
\* The environment: the window, its renderer and size, the cache file, and
\* the life of the process.  To keep the calibration from being repeated
\* from every state of the environment, the model lets the environment vary
\* freely only once the image is loaded: before that, the window takes a
\* size of StartSizes and the game writes no tile.

OpenWindow ==
    /\ pc = "idle"
    /\ ~Win
    /\ Win' = TRUE
    /\ trace' = Quiet("open")
    /\ UNCHANGED << build, atlas, file, origin, TilesPNG, tileEmpty, tilePadding, tileShifts,
                    baseTileWidth, baseTileHeight, numTextures, currentRenderer, Textures,
                    screenTiles, display, pc, cursor, process, frame, call, result >>

\* The window takes one of the given sizes and renderers.
ResizeTo(sizes, renderers) ==
    /\ pc = "idle"
    /\ Win
    /\ \E size \in sizes, r \in renderers :
          /\ TilesPNG \/ (size \in StartSizes \cup LaunchSizes /\ r = display.renderer)
          /\ display' = [renderer |-> r, width |-> size[1], height |-> size[2]]
          /\ display' # display
    /\ trace' = Quiet("resize")
    /\ UNCHANGED << build, atlas, file, origin, TilesPNG, tileEmpty, tilePadding, tileShifts,
                    baseTileWidth, baseTileHeight, numTextures, currentRenderer, Textures,
                    screenTiles, Win, pc, cursor, process, frame, call, result >>

Resize == ResizeTo(OutputSizes, Renderers)

\* Another program, or the user, replaces or removes the cache file while
\* the game is not running.
ReplaceCache ==
    /\ pc = "idle"
    /\ ~TilesPNG
    /\ file' \in {NoFile, [present |-> TRUE, bytes |-> ForeignBytes]}
    /\ file' # file
    /\ origin' = NoOrigin
    /\ trace' = Quiet("replace")
    /\ UNCHANGED << build, atlas, TilesPNG, tileEmpty, tilePadding, tileShifts,
                    baseTileWidth, baseTileHeight, numTextures, currentRenderer, Textures,
                    screenTiles, Win, display, pc, cursor, process, frame, call, result >>

\* The process ends and the game is started again: the statics are those of
\* a new process, the files stay.
Restart ==
    /\ pc = "idle"
    /\ TilesPNG
    /\ TilesPNG' = FALSE
    /\ tileEmpty' = [c \in Cells |-> FALSE]
    /\ tilePadding' = [c \in Cells |-> 0]
    /\ tileShifts' = << >>
    /\ baseTileWidth' = -1
    /\ baseTileHeight' = -1
    /\ numTextures' = 0
    /\ currentRenderer' = 0
    /\ Textures' = [i \in 0 .. 3 |-> NULL]
    /\ screenTiles' = << >>
    /\ Win' = FALSE
    /\ process' = Started
    /\ trace' = Quiet("start")
    /\ frame' = {}
    /\ display' = [renderer |-> 1, width |-> 0, height |-> 0]
    /\ UNCHANGED << build, atlas, file, origin, pc, cursor, call, result >>

\* ------------------------------------------------------------------------
\* updateTile

\* The glyphs the game shows: the floor and a wall top.
FloorGlyph == 20 * TILE_COLS + 2
WallTopGlyph == 16 * TILE_COLS + 2
Glyphs == {FloorGlyph, WallTopGlyph}

\* A variant that clears the rest of the screen.
updateTileAlone(row, column, charIndex, foreRed, foreGreen, foreBlue, backRed, backGreen, backBlue) ==
    /\ pc = "idle"
    /\ screenTiles' =
          [c \in {<< row, column >>} |->
              [charIndex |-> charIndex,
               foreRed |-> foreRed, foreGreen |-> foreGreen, foreBlue |-> foreBlue,
               backRed |-> backRed, backGreen |-> backGreen, backBlue |-> backBlue]]
    /\ trace' = [Quiet("updateTile") EXCEPT
                    !.args = << row, column, charIndex, foreRed, foreGreen, foreBlue,
                                backRed, backGreen, backBlue >>]
    /\ UNCHANGED << build, atlas, file, origin, TilesPNG, tileEmpty, tilePadding, tileShifts,
                    baseTileWidth, baseTileHeight, numTextures, currentRenderer, Textures,
                    Win, display, pc, cursor, process, frame, call, result >>

updateTile(row, column, charIndex, foreRed, foreGreen, foreBlue, backRed, backGreen, backBlue) ==
    /\ pc = "idle"
    /\ screenTiles' =
          [c \in DOMAIN screenTiles \cup {<< row, column >>} |->
              IF c = << row, column >>
              THEN [charIndex |-> charIndex,
                    foreRed |-> foreRed, foreGreen |-> foreGreen, foreBlue |-> foreBlue,
                    backRed |-> backRed, backGreen |-> backGreen, backBlue |-> backBlue]
              ELSE screenTiles[c]]
    /\ trace' = [Quiet("updateTile") EXCEPT
                    !.args = << row, column, charIndex, foreRed, foreGreen, foreBlue,
                                backRed, backGreen, backBlue >>]
    /\ UNCHANGED << build, atlas, file, origin, TilesPNG, tileEmpty, tilePadding, tileShifts,
                    baseTileWidth, baseTileHeight, numTextures, currentRenderer, Textures,
                    Win, display, pc, cursor, process, frame, call, result >>

\* The game writes one of the given screen cells.
UpdateTileAt(cells) ==
    /\ TilesPNG
    /\ \E c \in cells : \E charIndex \in Glyphs :
          updateTile(c[1], c[2], charIndex, 100, 100, 100, 0, 0, 0)

UpdateTile == UpdateTileAt({ << 0, 0 >> })

\* ------------------------------------------------------------------------
\* updateScreen, with the loadTiles and init it calls

\* The rest of updateScreen from the call of loadTiles after init: the
\* textures are rebuilt if needed and the frame is drawn.
Drawing(loaded, empty, p) ==
        /\ baseTileWidth' = loaded.g.baseTileWidth
        /\ baseTileHeight' = loaded.g.baseTileHeight
        /\ numTextures' = loaded.g.numTextures
        /\ currentRenderer' = loaded.g.currentRenderer
        /\ Textures' = loaded.g.Textures
        /\ frame' = Blits(loaded.g, empty, screenTiles, display.width, display.height)
        /\ trace' = [Quiet("updateScreen") EXCEPT
                        !.rebuilt = loaded.rebuilt, !.prepared = loaded.prepared]
        /\ process' = [p EXCEPT !.rendered = @ \/ loaded.prepared > 0]

Draw(g, empty, p) ==
    Drawing(loadTiles(g, display.renderer, display.width, display.height), empty, p)

\* if (!Win) return; ... if (outputWidth == 0 || outputHeight == 0) return;
Returns ==
    \/ ~Win
    \/ build = "new" /\ (display.width = 0 \/ display.height = 0)

UpdateScreenReturns ==
    /\ pc = "idle"
    /\ Returns
    /\ trace' = Quiet("updateScreen")
    /\ UNCHANGED << build, atlas, file, origin, TilesPNG, tileEmpty, tilePadding, tileShifts,
                    baseTileWidth, baseTileHeight, numTextures, currentRenderer, Textures,
                    screenTiles, Win, display, pc, cursor, process, frame, call, result >>

\* A variant in which loadTiles zeroes the table again.
UpdateScreenLoadedAnew ==
    /\ pc = "idle"
    /\ ~Returns
    /\ TilesPNG
    /\ tileShifts' = << >>
    /\ Draw(Globals, tileEmpty, process)
    /\ UNCHANGED << build, atlas, file, origin, TilesPNG, tileEmpty, tilePadding,
                    screenTiles, Win, display, pc, cursor, call, result >>

\* TilesPNG is loaded: loadTiles goes on without init.
UpdateScreenLoaded ==
    /\ pc = "idle"
    /\ ~Returns
    /\ TilesPNG
    /\ Draw(Globals, tileEmpty, process)
    /\ UNCHANGED << build, atlas, file, origin, TilesPNG, tileEmpty, tilePadding, tileShifts,
                    screenTiles, Win, display, pc, cursor, call, result >>

\* TilesPNG is NULL and the cache file opens: init reads the table from it.
UpdateScreenReads ==
    /\ pc = "idle"
    /\ ~Returns
    /\ ~TilesPNG
    /\ file.present
    /\ TilesPNG' = TRUE
    /\ \E measured \in {Measured(atlas)} :
          /\ tileEmpty' = measured.empty
          /\ tilePadding' = measured.padding
    /\ tileShifts' = Read(file.bytes)
    /\ Draw(Globals, tileEmpty', [process EXCEPT !.opened = "read"])
    /\ UNCHANGED << build, atlas, file, origin, screenTiles, Win, display, pc, cursor,
                    call, result >>

\* A variant in which init calibrates whether the cache file opens or not.
UpdateScreenCalibratesAnyway ==
    /\ pc = "idle"
    /\ ~Returns
    /\ ~TilesPNG
    /\ TilesPNG' = TRUE
    /\ \E measured \in {Measured(atlas)} :
          /\ tileEmpty' = measured.empty
          /\ tilePadding' = measured.padding
    /\ pc' = "optimizeTiles"
    /\ cursor' = CellFrom(tileEmpty', 0)
    /\ process' = [process EXCEPT !.opened = "missing", !.optimized = @ + 1]
    /\ trace' = Quiet("updateScreen")
    /\ UNCHANGED << build, atlas, file, origin, tileShifts,
                    baseTileWidth, baseTileHeight, numTextures, currentRenderer, Textures,
                    screenTiles, Win, display, frame, call, result >>

\* TilesPNG is NULL and the cache file does not open: init enters
\* optimizeTiles, at its first non-empty cell.
UpdateScreenCalibrates ==
    /\ pc = "idle"
    /\ ~Returns
    /\ ~TilesPNG
    /\ ~file.present
    /\ TilesPNG' = TRUE
    /\ \E measured \in {Measured(atlas)} :
          /\ tileEmpty' = measured.empty
          /\ tilePadding' = measured.padding
    /\ pc' = "optimizeTiles"
    /\ cursor' = CellFrom(tileEmpty', 0)
    /\ process' = [process EXCEPT !.opened = "missing", !.optimized = @ + 1]
    /\ trace' = Quiet("updateScreen")
    /\ UNCHANGED << build, atlas, file, origin, tileShifts,
                    baseTileWidth, baseTileHeight, numTextures, currentRenderer, Textures,
                    screenTiles, Win, display, frame, call, result >>

\* The record of a process p after n more calibrating calls at cur.
Counted(p, cur, n) ==
    LET k == << cur.row, cur.column, cur.axis >>
        made == IF k \in DOMAIN p.calls THEN p.calls[k] ELSE 0
    IN  [p EXCEPT !.calls = Put(p.calls, k, made + n)]

\* optimizeTiles: one search, in a process whose record becomes p.
Searching(p) ==
    /\ pc = "optimizeTiles"
    /\ ~cursor.done
    /\ \E found \in {Search(atlas, tilePadding, tileShifts, cursor)} :
           /\ tileShifts' = Put(tileShifts,
                                << cursor.row, cursor.column, cursor.axis, cursor.size >>,
                                found.shifts)
           /\ trace' = [Quiet("search") EXCEPT !.before = found.before, !.after = found.after,
                                               !.shift = found.shift]
           /\ process' = Counted(p, cursor, found.calls)
    /\ baseTileWidth' = (IF cursor.axis = 0 THEN cursor.size ELSE MAX_TILE_SIZE)
    /\ baseTileHeight' = (IF cursor.axis = 0 THEN MAX_TILE_SIZE ELSE cursor.size)
    /\ cursor' = NextStep(tileEmpty, cursor)
    /\ UNCHANGED << build, atlas, file, origin, TilesPNG, tileEmpty, tilePadding,
                    numTextures, currentRenderer, Textures,
                    screenTiles, Win, display, pc, frame, call, result >>

SearchStep == Searching(process)

\* baseTileWidth and baseTileHeight are the loop variables of optimizeTiles:
\* what they hold when it returns.
AfterOptimizeTiles(g, empty) ==
    IF \A c \in Cells : empty[c] THEN g
    ELSE [g EXCEPT !.baseTileWidth = MAX_TILE_SIZE, !.baseTileHeight = MAX_TILE_SIZE + 1]

\* optimizeTiles returns: init writes the cache file, and updateScreen goes on.
UpdateScreenResumes ==
    /\ pc = "optimizeTiles"
    /\ cursor.done
    /\ file' = [present |-> TRUE, bytes |-> Written(tileShifts)]
    /\ origin' = [known |-> TRUE, table |-> tileShifts]
    /\ pc' = "idle"
    /\ Draw(AfterOptimizeTiles(Globals, tileEmpty), tileEmpty, process)
    /\ UNCHANGED << build, atlas, TilesPNG, tileEmpty, tilePadding, tileShifts,
                    screenTiles, Win, display, cursor, call, result >>

UpdateScreen ==
    \/ UpdateScreenReturns
    \/ UpdateScreenLoaded
    \/ UpdateScreenReads
    \/ UpdateScreenCalibrates
    \/ UpdateScreenResumes

Next ==
    \/ OpenWindow
    \/ Resize
    \/ ReplaceCache
    \/ Restart
    \/ UpdateTile
    \/ UpdateScreen
    \/ SearchStep

Spec == Init /\ [][Next]_vars

\* ------------------------------------------------------------------------
\* The program in a window that takes its size before the first frame and
\* keeps it: among the sizes, the one whose tiles are as large as
\* baseTileWidth and baseTileHeight are when optimizeTiles returns.

ResizeLaunch ==
    /\ ~TilesPNG
    /\ ResizeTo(LaunchSizes, {1})

NextLaunch ==
    \/ OpenWindow
    \/ ResizeLaunch
    \/ ReplaceCache
    \/ Restart
    \/ UpdateTile
    \/ UpdateScreen
    \/ SearchStep

SpecLaunch == Init /\ [][NextLaunch]_vars

\* ------------------------------------------------------------------------
\* The program in a window that keeps the size it is opened with, under a
\* game that writes two cells of the screen.

ScreenCells == { << 0, 0 >>, << ROWS - 1, COLS - 1 >> }

UpdateTileGame == UpdateTileAt(ScreenCells)

ResizeStart == ResizeTo(StartSizes, {1})

NextGame ==
    \/ OpenWindow
    \/ ResizeStart
    \/ ReplaceCache
    \/ Restart
    \/ UpdateTileGame
    \/ UpdateScreen
    \/ SearchStep

SpecGame == Init /\ [][NextGame]_vars

\* optimizeTiles is a loop of the thread that called updateScreen, with no
\* wait in it: while the loop has a next position, the loop takes it.
Advance == pc = "optimizeTiles" /\ ~cursor.done /\ cursor' = NextStep(tileEmpty, cursor)

SpecCalibration == SpecGame /\ WF_cursor(Advance)

\* ------------------------------------------------------------------------
\* The program on a host where SDL can fail to create a surface or a texture.

\* The variants whose creation the model lets fail, and what fails.
FaultyVariants == {0}
Faults == {"surface", "texture"}

\* sdlfatal: exit(1).  The statics go with the process; the files stay.
Exit ==
    /\ pc' = "exited"
    /\ TilesPNG' = FALSE
    /\ tileEmpty' = [c \in Cells |-> FALSE]
    /\ tilePadding' = [c \in Cells |-> 0]
    /\ tileShifts' = << >>
    /\ baseTileWidth' = -1
    /\ baseTileHeight' = -1
    /\ numTextures' = 0
    /\ currentRenderer' = 0
    /\ Textures' = [i \in 0 .. 3 |-> NULL]
    /\ screenTiles' = << >>
    /\ Win' = FALSE
    /\ cursor' = NoCursor
    /\ process' = [Started EXCEPT !.failed = TRUE]
    /\ trace' = Quiet("exit")
    /\ frame' = {}
    /\ display' = [renderer |-> 1, width |-> 0, height |-> 0]
    /\ UNCHANGED << build, atlas, file, origin, call, result >>

\* The game is started again after the process has exited.
Relaunch ==
    /\ pc = "exited"
    /\ pc' = "idle"
    /\ process' = Started
    /\ trace' = Quiet("start")
    /\ UNCHANGED << build, atlas, file, origin, TilesPNG, tileEmpty, tilePadding, tileShifts,
                    baseTileWidth, baseTileHeight, numTextures, currentRenderer, Textures,
                    screenTiles, Win, display, cursor, frame, call, result >>

\* loadTiles of the older tiles.c when SDL_CreateTextureFromSurface returns
\* NULL for variant i: the pointer is stored as it is and the loop goes on.
Unbuilt(loaded, i) == [loaded EXCEPT !.g.Textures[i] = NULL]

\* updateScreen rebuilds the variants and SDL fails to create the surface or
\* the texture of one of them.  part_001 calls sdlfatal on either.  part_002
\* checks neither: a NULL texture is kept and the frame is drawn without the
\* cells that take it, and a NULL surface is dereferenced by prepareTile,
\* which is undefined: the process dies, or it goes on to SDL, which returns
\* a NULL texture for a NULL surface.
UpdateScreenFails ==
    /\ pc = "idle"
    /\ ~Returns
    /\ TilesPNG
    /\ \E loaded \in {loadTiles(Globals, display.renderer, display.width, display.height)} :
       \E i \in FaultyVariants, fault \in Faults :
          /\ loaded.rebuilt
          /\ ~loaded.g.Textures[i].null
          /\ \/ /\ build = "new" \/ fault = "surface"
                /\ Exit
             \/ /\ build = "old"
                /\ Drawing(Unbuilt(loaded, i), tileEmpty, [process EXCEPT !.failed = TRUE])
                /\ UNCHANGED << build, atlas, file, origin, TilesPNG, tileEmpty, tilePadding,
                                tileShifts, screenTiles, Win, display, pc, cursor, call, result >>

\* optimizeTiles fails to create the surface of the first size it calibrates
\* for a cell.  part_001 calls sdlfatal.  part_002 passes the NULL surface to
\* prepareTile, which dereferences it: the process dies, or the read goes
\* through and the search is made.
SearchFails ==
    /\ pc = "optimizeTiles"
    /\ ~cursor.done
    /\ cursor.axis = 0 /\ cursor.size = FirstSize(0) /\ cursor.pass = 0 /\ cursor.idx = 0
    /\ \/ Exit
       \/ /\ build = "old"
          /\ Searching([process EXCEPT !.failed = TRUE])

NextHost ==
    \/ Next
    \/ UpdateScreenFails
    \/ SearchFails
    \/ Relaunch

SpecHost == Init /\ [][NextHost]_vars

\* ========================================================================
\* prepareTile taken in isolation: one call on arguments drawn from the
\* families below, with the statics it reads (tileEmpty, tilePadding,
\* tileShifts, baseTileWidth, baseTileHeight) as part of the arguments.

\* Tile sizes of the calls: the smallest, the sizes at which the floor dust
\* starts, and sizes of a small screen.
TileSizes == { << 1, 1 >>, << 2, 2 >>, << 3, 3 >>, << 5, 7 >>, << 8, 10 >> }

\* Cells of the four processing modes, and the four cells prepareTile
\* augments.
PlainCells == { << 0, 0 >>, << 4, 1 >>, << 2, 0 >>, << 16, 4 >> }
AugmentedCells == { << 20, 2 >>, << 16, 2 >>, << 21, 1 >>, << 22, 4 >> }

\* What a drawn cell holds, by processing mode.
Drawn(cell) ==
    IF Processing(cell[1], cell[2]) = "f" THEN Content(93, 104, 186, 211, 255)
    ELSE IF Processing(cell[1], cell[2]) = "t" THEN Content(30, 90, 40, 186, 255)
    ELSE Content(10, 120, 0, TILE_HEIGHT, 200)

\* Shifts the optimizer's window allows, and shifts only a file can hold.
WindowShifts == { << 0, 0, 0 >>, << -5, -5, 5 >>, << 5, 5, -10 >>, << -5, 5, 10 >> }
FileShifts == { << 127, 127, 127 >>, << -128, -128, -128 >>, << 60, -60, 0 >> }

\* A table that holds the same shifts for every size of a cell.
Uniform(cell, shifts) ==
    [k \in {<< cell[1], cell[2], axis, size >> : axis \in {0, 1}, size \in 1 .. MAX_TILE_SIZE}
        |-> shifts]

CallOf(cell, content, table, size, optimizing) ==
    [c |-> content, row |-> cell[1], column |-> cell[2],
     padding |-> IF Processing(cell[1], cell[2]) = "f"
                 THEN (IF isTileEmpty(content) THEN TILE_HEIGHT \div 4 ELSE getPadding(content))
                 ELSE 0,
     empty |-> isTileEmpty(content),
     table |-> table,
     tileWidth |-> size[1], tileHeight |-> size[2],
     baseTileWidth |-> size[1], baseTileHeight |-> size[2],
     optimizing |-> optimizing, before |-> -1]

\* The floor cell rendered as a wider and higher variant of a base size, and
\* with a table that holds shifts for it.
FloorCell == << 20, 2 >>
FloorCalls ==
    {[CallOf(FloorCell, Blank, table, size, FALSE) EXCEPT
          !.baseTileWidth = size[1] - 1, !.baseTileHeight = size[2] - 1] :
        table \in {<< >>, Uniform(FloorCell, << 5, 5, -10 >>)}, size \in TileSizes}

\* Stretch cells filled with white, two of them wall tops, with a zero
\* table.
White == Content(0, TILE_WIDTH, 0, TILE_HEIGHT, 255)
WhiteCells == { << 16, 4 >>, << 16, 2 >>, << 21, 1 >> }
WhiteSizes == { << 1, 1 >>, << 8, 8 >>, << 16, 16 >>, << 64, 64 >> }
WhiteCalls ==
    {CallOf(cell, White, << >>, size, FALSE) : cell \in WhiteCells, size \in WhiteSizes}

\* The empty floor cell at more sizes: the smallest with an interior, an
\* odd one, and a larger one.
DustSizes == { << 3, 4 >>, << 4, 4 >>, << 13, 11 >>, << 16, 16 >> }
DustCalls == {CallOf(FloorCell, Blank, << >>, size, FALSE) : size \in DustSizes}

\* Wall tops that hold a drawing: a lower wall segment over the whole width,
\* and a mark that does not reach the left edge of the cell.
Segment16 == Content(0, TILE_WIDTH, 116, TILE_HEIGHT, 255)
Mark == Content(60, 71, 100, 121, 200)
WallCalls ==
    {CallOf(cell, content, << >>, size, FALSE) :
        cell \in { << 16, 2 >>, << 22, 4 >> }, content \in {Segment16, Mark},
        size \in { << 8, 10 >>, << 16, 16 >> }}

\* A text cell drawn from its first row down, in a tile so narrow for its
\* height that the glyph is centred with rows to spare above it; with the
\* values the word before scaledY can hold that matter to the call.
TopDrawn == Content(30, 90, 0, 186, 255)
TallSize == << 5, 20 >>
TallCalls ==
    {[CallOf(TextCell, TopDrawn, << >>, TallSize, FALSE) EXCEPT !.before = word] :
        word \in {-1, 1}}

Calls ==
    FloorCalls \cup DustCalls \cup WhiteCalls \cup WallCalls \cup TallCalls \cup
    {CallOf(cell, Blank, << >>, size, FALSE) :
        cell \in PlainCells \cup AugmentedCells, size \in TileSizes}
    \cup {CallOf(cell, Drawn(cell), Uniform(cell, shifts), size, FALSE) :
        cell \in PlainCells, shifts \in WindowShifts \cup FileShifts, size \in TileSizes}
    \cup {CallOf(cell, Drawn(cell), Uniform(cell, shifts), size, TRUE) :
        cell \in {FitCell}, shifts \in WindowShifts, size \in {<< 5, 7 >>}}

\* What a call can come to.  A write outside the buffer is undefined: the
\* call may go on, with the writes inside the buffer as they were made, or
\* the process may fail.
Completed(r) ==
    [made |-> TRUE, failed |-> FALSE, alpha |-> r.alpha, count |-> r.count, range |-> r.range]
Failed == [made |-> TRUE, failed |-> TRUE, alpha |-> << >>, count |-> << >>, range |-> FALSE]
Outcomes(r) == {Completed(r)} \cup (IF r.ub THEN {Failed} ELSE {})

InitTile ==
    /\ build = "new"
    /\ atlas = << >>
    /\ file = NoFile
    /\ origin = NoOrigin
    /\ Statics
    /\ display = [renderer |-> 1, width |-> 0, height |-> 0]
    /\ pc = "prepareTile"
    /\ cursor = NoCursor
    /\ process = Started
    /\ trace = Quiet("start")
    /\ frame = {}
    /\ call \in Calls
    /\ result = NoResult

PrepareTile ==
    /\ pc = "prepareTile"
    /\ ~result.made
    /\ \E r \in {prepareTile(call)} : result' \in Outcomes(r)
    /\ trace' = Quiet("prepareTile")
    /\ UNCHANGED << build, atlas, file, origin, TilesPNG, tileEmpty, tilePadding, tileShifts,
                    baseTileWidth, baseTileHeight, numTextures, currentRenderer, Textures,
                    screenTiles, Win, display, pc, cursor, process, frame, call >>

NextTile == PrepareTile

SpecTile == InitTile /\ [][NextTile]_vars

\* ========================================================================
\* Properties

\* A blit copies its texture 1:1: the texture exists, is one of the four
\* variants, was rasterized for the destination size, and the source
\* rectangle has that size.
OneToOne(b) ==
    /\ ~b.null
    /\ b.texture \in 0 .. 3
    /\ b.tileWidth = b.w /\ b.tileHeight = b.h
    /\ b.srcW = b.w /\ b.srcH = b.h

\* C1, as stated: in every frame, every foreground blit into a destination
\* cell of non-zero width and height takes exactly one of the four variants,
\* rasterized with a tile size equal to the destination size (copied 1:1).
C1_Original == \A b \in frame : OneToOne(b)

\* C1, amended: the same, for the frames drawn while four variants are built
\* (the base tile size below MAX_TILE_SIZE in both dimensions); with a single
\* texture built, Textures[0] is scaled to the destination.
C1_VariantSelection ==
    (build = "old" \/ numTextures = 4) => \A b \in frame : OneToOne(b)

\* A frame that takes all four variants.
C1_Reached ==
    /\ build = "new" /\ numTextures = 4
    /\ {b.texture : b \in frame} = 0 .. 3

Transparent ==
    \A y \in 0 .. call.tileHeight - 1 : \A x \in 0 .. call.tileWidth - 1 :
        result.alpha[y][x] = 0

EmptyCall == result.made /\ call.empty /\ ~call.optimizing

WallTopCells == { << 16, 2 >>, << 21, 1 >>, << 22, 4 >> }

\* C2, as stated: a non-calibrating prepareTile call on an empty cell other
\* than three augmented cells (the wall tops) writes alpha 0 to every pixel
\* of the tile, whatever the tile size.
C2_Original ==
    (EmptyCall /\ << call.row, call.column >> \notin WallTopCells)
        => (~result.failed /\ Transparent)

\* C2, amended: a non-calibrating prepareTile call on an empty cell other
\* than the four augmented cells (the floor and the three wall tops) writes
\* alpha 0 to every pixel of the tile, whatever the tile size.
C2_EmptyTransparent ==
    (EmptyCall /\ << call.row, call.column >> \notin AugmentedCells)
        => (~result.failed /\ Transparent)

\* An empty cell of a wall-top row, not augmented, rendered at 8 x 10.
C2_Reached ==
    /\ EmptyCall
    /\ call.row = 16 /\ call.column = 4
    /\ call.tileWidth = 8 /\ call.tileHeight = 10

\* C3: the table init wrote to the cache file after optimizeTiles, read back
\* by init in a later process, is the array of signed bytes it was written
\* from.
C3_CacheRoundTrip ==
    (origin.known /\ process.opened = "read") => SameTable(tileShifts, origin.table)

\* A table with a negative shift, read back from the file it was written to.
C3_Reached ==
    /\ origin.known /\ process.opened = "read"
    /\ \E k \in DOMAIN tileShifts : \E i \in 1 .. 3 : tileShifts[k][i] < 0

\* C4: optimizeTiles runs at most once per process, only when the cache file
\* does not open, and before the first non-calibrating prepareTile call; when
\* the file opens the optimizer does not run and the table is the file's.
C4_OptimizerOnce ==
    /\ process.optimized <= 1
    /\ (pc = "optimizeTiles"
            => (~file.present /\ ~process.rendered /\ process.optimized = 1))
    /\ (process.opened = "read"
            => (process.optimized = 0 /\ file.present /\ tileShifts = Read(file.bytes)))

\* A process that calibrated and then rendered.
C4_Reached == pc = "idle" /\ process.optimized = 1 /\ process.rendered

\* C5, as stated: after each search of optimizeTiles (the scan of the 11
\* shifts for one idx) the blur of the shifts left in the table is at most
\* the blur of the shifts that were in the table before it.
C5_SearchNeverWorse == trace.op = "search" => trace.after <= trace.before

\* C6: once init has returned, no step of updateTile, updateScreen or
\* loadTiles changes the table; it changes only inside optimizeTiles, by the
\* read of the cache file, or when the process ends.
C6_TableReadOnly ==
    [][ /\ (TilesPNG /\ pc = "idle" /\ TilesPNG') => tileShifts' = tileShifts
        /\ tileShifts' # tileShifts
              => \/ pc = "optimizeTiles"
                 \/ ~TilesPNG /\ process'.opened = "read"
                 \/ ~TilesPNG' ]_vars

\* A calibrated table, with tiles written by the game and textures rebuilt
\* from it.
C6_Reached ==
    /\ TilesPNG /\ pc = "idle"
    /\ tileShifts # << >> /\ screenTiles # << >>
    /\ trace.op = "updateScreen" /\ trace.rebuilt

\* The base tile size loadTiles derives from the output size.
DerivedBase ==
    IF build = "new" THEN NewBase(display.width, display.height)
    ELSE << display.width \div COLS, display.height \div ROWS >>

\* The base tile size loadTiles finds in the statics.
CurrentBase ==
    IF pc = "optimizeTiles" THEN << MAX_TILE_SIZE, MAX_TILE_SIZE + 1 >>
    ELSE << baseTileWidth, baseTileHeight >>

\* The renderer of the last build.
BuiltBy == IF build = "old" THEN currentRenderer ELSE Textures[0].renderer

\* A step of updateScreen that reaches loadTiles past init.
LoadTilesStep ==
    /\ ~Returns
    /\ \/ pc = "idle" /\ (TilesPNG \/ file.present)
       \/ pc = "optimizeTiles" /\ cursor.done
    /\ trace'.op = "updateScreen"

\* C7: when the base tile size derived from the output size is the current
\* one and the renderer is that of the last build, loadTiles leaves Textures,
\* the number of variants and the base tile size as they are and makes no
\* prepareTile call.
C7_NoOp ==
    [][(LoadTilesStep /\ DerivedBase = CurrentBase /\ BuiltBy = display.renderer)
          => /\ Textures' = Textures
             /\ numTextures' = numTextures
             /\ baseTileWidth' = baseTileWidth /\ baseTileHeight' = baseTileHeight
             /\ trace'.prepared = 0]_vars

\* An updateScreen that went through loadTiles with textures built and built
\* none.
C7_Reached ==
    /\ trace.op = "updateScreen" /\ pc = "idle" /\ ~Returns
    /\ ~trace.rebuilt /\ ~Textures[0].null
    /\ DerivedBase = CurrentBase

Variant(i, base) == Texture(display.renderer, base[1] + WiderBy(i), base[2] + HigherBy(i))

\* The variants loadTiles builds for a base tile size.
Builds(i, base) ==
    IF build = "new"
    THEN i = 0 \/ (base[1] < MAX_TILE_SIZE /\ base[2] < MAX_TILE_SIZE)
    ELSE base[1] + WiderBy(i) > 0 /\ base[2] + HigherBy(i) > 0

C9_InRange == result.made => (~result.failed /\ result.range)

InWindow(shifts) ==
    shifts[1] \in -5 .. 5 /\ shifts[2] \in -5 .. 5 /\ shifts[3] \in -10 .. 10

Glyph ==
    GlyphSize(Processing(call.row, call.column), call.padding, call.optimizing,
              call.tileWidth, call.tileHeight, call.baseTileWidth, call.baseTileHeight)

HShifts == LookupShifts(call.table, call.row, call.column, 0, Glyph.glyphWidth)
VShifts == LookupShifts(call.table, call.row, call.column, 1, Glyph.glyphHeight)

\* The pixels of the tile inside the mapped glyph rectangle.
GlyphColumns ==
    LET map0 == HMap0(Glyph.fitWidth, Glyph.glyphWidth, HShifts)
    IN  (map0 .. map0 + Glyph.glyphWidth - 1) \cap (0 .. call.tileWidth - 1)
GlyphRows ==
    LET map0 == VMap0(Glyph.fitHeight, Glyph.glyphHeight)
    IN  (map0 .. map0 + Glyph.glyphHeight - 1) \cap (0 .. call.tileHeight - 1)

\* C10, as stated: with shifts inside the optimizer's window, for a cell
\* that is not empty and any tile size, every pixel of the mapped glyph
\* rectangle ends with a sample count of at least 1.
C10_Covered ==
    (result.made /\ ~call.empty /\ InWindow(HShifts) /\ InWindow(VShifts))
        => /\ ~result.failed
           /\ \A y \in GlyphRows : \A x \in GlyphColumns : result.count[y][x] >= 1

\* The table is the optimizer's: this process calibrated it, or read it from
\* the file an earlier process wrote after calibrating.
OptimizerTable ==
    \/ process.opened = "missing"
    \/ process.opened = "read" /\ origin.known

\* Base tile sizes of the renderings of a text cell: every height up to the
\* largest calibrated one and the height of the single scaled texture, at a
\* narrow and at a wide tile.
TextHeights == (1 .. MAX_TILE_SIZE) \cup {TILE_HEIGHT}
TextWidths == {3, MAX_TILE_SIZE}

\* map0 .. map4 of the vertical map of a 't' cell rendered at the base tile
\* size w x h with the shifts the table holds, scaled by VScale.
TextVMap(cell, w, h) ==
    LET g == GlyphSize("t", 0, FALSE, w, h, w, h)
    IN  VMap("t", VStops("t", 0), g.fitHeight, g.glyphHeight,
             LookupShifts(tileShifts, cell[1], cell[2], 1, g.glyphHeight))

Integral(m, k) == m % k = 0

\* C11: with the table as optimizeTiles produces it, the x-height stop
\* (map2) and the baseline stop (map3) of the vertical map of a 't' cell are
\* whole pixel rows after the shifts have been added, at every height.
C11_BaselineIntegral ==
    OptimizerTable =>
        \A w \in TextWidths : \A h \in TextHeights :
            LET m == TextVMap(TextCell, w, h)
                k == VScale(VStops("t", 0))
            IN  Integral(m[3], k) /\ Integral(m[4], k)

\* The optimizer has written the vertical entry of the text cell for a
\* height at which the cell is rendered, with a shift that is not zero.
C11_Reached ==
    /\ OptimizerTable /\ pc = "idle"
    /\ \E h \in TextHeights :
          LET g == GlyphSize("t", 0, FALSE, MAX_TILE_SIZE, h, MAX_TILE_SIZE, h)
              key == << TextCell[1], TextCell[2], 1, g.glyphHeight >>
          IN  key \in DOMAIN tileShifts /\ tileShifts[key][1] # 0

\* The tile the floor cell gets at a tile size when the base tile size is
\* that size and the table is zero.
FloorReference(size) == prepareTile(CallOf(FloorCell, Blank, << >>, size, FALSE)).alpha

FloorCall == result.made /\ IsFloor(call.row, call.column) /\ call.empty /\ ~call.optimizing

\* C12: a non-calibrating prepareTile call on the empty floor cell writes the
\* tile that every such call with the same tileWidth and tileHeight writes,
\* whatever the base tile size and the shift table are.
C12_DustDeterministic ==
    FloorCall =>
        /\ ~result.failed
        /\ result.alpha = FloorReference(<< call.tileWidth, call.tileHeight >>)

\* Floor dust drawn at 8 x 10 as the larger variant of the base size 7 x 9,
\* with shifts in the table.
C12_Reached ==
    /\ FloorCall
    /\ call.tileWidth = 8 /\ call.tileHeight = 10
    /\ call.baseTileWidth = 7 /\ call.table # << >>
    /\ \E y \in 1 .. 8 : \E x \in 1 .. 6 : result.alpha[y][x] # 0

\* A non-calibrating call on a stretch cell filled with white, with zero
\* shifts, for a tile no larger than the source cell.
WhiteCall ==
    /\ result.made /\ ~call.optimizing
    /\ Processing(call.row, call.column) = "s"
    /\ call.c = White
    /\ HShifts = NoShifts /\ VShifts = NoShifts
    /\ call.tileWidth <= TILE_WIDTH /\ call.tileHeight <= TILE_HEIGHT

\* Every pixel of the tile is sampled and comes out with alpha 255.
Opaque ==
    /\ ~result.failed
    /\ \A y \in 0 .. call.tileHeight - 1 : \A x \in 0 .. call.tileWidth - 1 :
           result.count[y][x] >= 1 /\ result.alpha[y][x] = 255

\* C13, as stated: a stretch cell whose source pixels are all white,
\* rendered with zero shifts to a tile no larger than the source, has alpha
\* 255 at every pixel of the tile.
C13_Original == WhiteCall => Opaque

\* C13, amended: the same for every stretch cell other than the wall top
\* (21,1), which prepareTile paints over with the sine waves whatever its
\* source pixels are.
C13_WhiteOpaque ==
    (WhiteCall /\ << call.row, call.column >> # << 21, 1 >>) => Opaque

\* A white wall-top cell other than (21,1), rendered at 8 x 8.
C13_Reached ==
    /\ WhiteCall
    /\ call.row = 16 /\ call.column = 2
    /\ call.tileWidth = 8 /\ call.tileHeight = 8

\* optimizeTiles has run in this process and has returned.
Optimized == process.opened = "missing" /\ pc = "idle"

\* The sizes the optimizer calibrates on an axis.
Calibrated(axis) == FirstSize(axis) .. LastSize(axis)

\* C14, as stated: optimizeTiles makes no calibrating call for a stretch
\* cell, and the shifts it leaves for the stretch cells are all zero.
C14_Original ==
    /\ (pc = "optimizeTiles" /\ ~cursor.done) => Processing(cursor.row, cursor.column) # "s"
    /\ Optimized =>
          \A k \in DOMAIN tileShifts : Processing(k[1], k[2]) = "s" => tileShifts[k] = NoShifts

\* C14, amended: optimizeTiles passes over the empty cells alone.  It makes
\* its calibrating calls for the cells that are not empty, the stretch cells
\* among them, and when it returns it has written the entries of both axes
\* and every calibrated size for exactly these cells.
C14_StretchSearched ==
    /\ (pc = "optimizeTiles" /\ ~cursor.done) => ~tileEmpty[<< cursor.row, cursor.column >>]
    /\ Optimized =>
          \A c \in Cells : \A axis \in {0, 1} : \A size \in Calibrated(axis) :
              << c[1], c[2], axis, size >> \in DOMAIN tileShifts <=> ~tileEmpty[c]

\* The optimizer has returned and has left shifts for the stretch cell, on
\* both axes, that are not zero.
C14_Reached ==
    /\ Optimized
    /\ ~tileEmpty[StretchCell]
    /\ \A axis \in {0, 1} : \E size \in Calibrated(axis) :
          LET k == << StretchCell[1], StretchCell[2], axis, size >>
          IN  k \in DOMAIN tileShifts /\ tileShifts[k] # NoShifts

\* updateScreen has just drawn a frame of the screen as it is now.
FrameDrawn == trace.op = "updateScreen" /\ pc = "idle" /\ ~Returns

ColumnWidth(x) == ((x + 1) * display.width) \div COLS - (x * display.width) \div COLS
RowHeight(y) == ((y + 1) * display.height) \div ROWS - (y * display.height) \div ROWS

\* The screen cells with a destination that is not empty, each as the glyph
\* it shows and the size of its destination.
Shown ==
    LET width == Table([x \in 0 .. COLS - 1 |-> ColumnWidth(x)])
        height == Table([y \in 0 .. ROWS - 1 |-> RowHeight(y)])
        at(y, x) == [charIndex |-> ScreenTile(screenTiles, y, x).charIndex,
                     w |-> width[x], h |-> height[y]]
    IN  {s \in {at(y, x) : y \in 0 .. ROWS - 1, x \in 0 .. COLS - 1} : s.w # 0 /\ s.h # 0}

\* The frame holds the foreground blit of a shown screen cell.
Blitted(s) == \E b \in frame : b.charIndex = s.charIndex /\ b.w = s.w /\ b.h = s.h

AtlasCell(charIndex) == << charIndex \div TILE_COLS, charIndex % TILE_COLS >>

\* C15: in a frame, a screen cell that shows one of the augmented atlas cells
\* (the wall tops (16,2), (21,1), (22,4) and the floor (20,2)) has its
\* foreground blitted whether that atlas cell is empty or not, and a screen
\* cell that shows any other atlas cell has it blitted exactly when that
\* atlas cell is not empty.
C15_AugmentedBlitted ==
    FrameDrawn =>
        \A s \in Shown :
            Blitted(s) <=> (AtlasCell(s.charIndex) \in AugmentedCells \/ ~tileEmpty[AtlasCell(s.charIndex)])

\* The same, for the program built from the older tiles.c.
C15_OldBuild == build = "old" => C15_AugmentedBlitted

\* A frame that shows the wall top (16,2), empty in the atlas, and blits it.
C15_Reached ==
    /\ FrameDrawn
    /\ \E s \in Shown : s.charIndex = WallTopGlyph /\ tileEmpty[AtlasCell(s.charIndex)] /\ Blitted(s)

\* C16: a failure to create a surface or a texture ends the process: after
\* one, nothing runs until the game is started again.
C16_FailureFatal == process.failed => pc = "exited"

\* The same, for the program built from the newer tiles.c.
C16_NewBuild == build = "new" => C16_FailureFatal

\* The ScreenTile that the arguments of an updateTile call describe.
Given(a) ==
    [charIndex |-> a[3], foreRed |-> a[4], foreGreen |-> a[5], foreBlue |-> a[6],
     backRed |-> a[7], backGreen |-> a[8], backBlue |-> a[9]]

\* C17: a call of updateTile puts the seven values it is given in the screen
\* cell it names, leaves the other screen cells, the textures, the base tile
\* size, the shift table and the last frame as they are; a step of
\* updateScreen, optimizeTiles included, changes no screen cell.
C17_UpdateTileOnly ==
    [][ /\ trace'.op = "updateTile" =>
            LET c == << trace'.args[1], trace'.args[2] >>
            IN  /\ DOMAIN screenTiles' = DOMAIN screenTiles \cup {c}
                /\ screenTiles'[c] = Given(trace'.args)
                /\ \A o \in DOMAIN screenTiles \ {c} : screenTiles'[o] = screenTiles[o]
                /\ UNCHANGED << Textures, numTextures, baseTileWidth, baseTileHeight,
                                tileShifts, frame >>
        /\ trace'.op \in {"updateScreen", "search"} => UNCHANGED screenTiles ]_vars

\* updateTile has just replaced the glyph of one of two written screen cells
\* that show different glyphs, after a frame was drawn.
C17_Reached ==
    /\ trace.op = "updateTile"
    /\ DOMAIN screenTiles = ScreenCells
    /\ \E c, o \in ScreenCells : screenTiles[c].charIndex # screenTiles[o].charIndex
    /\ frame # {}
    /\ \E i \in 0 .. 3 : ~Textures[i].null

\* The blur of the calibrating call that the search at cur makes when it
\* tries a shift.
Score(cur, shift) ==
    LET old == Entry(tileShifts, << cur.row, cur.column, cur.axis, cur.size >>)
        tried == Tried(Processing(cur.row, cur.column), cur.axis, old, cur.idx, shift)
    IN  prepareTile(Calibrating(atlas, tilePadding, tileShifts, cur, tried)).blur

\* The place of a search among the searches of its cell, axis and size.
Place(cur) == cur.pass * Searched(Processing(cur.row, cur.column), cur.axis) + cur.idx
Searches(cur) == 3 * Searched(Processing(cur.row, cur.column), cur.axis)
SameLoop(a, b) == a.row = b.row /\ a.column = b.column /\ a.axis = b.axis /\ a.size = b.size

\* C18: a search of optimizeTiles leaves in the shift it is about the value
\* with the least calibration blur among the 11 values from 5 below to 5
\* above its starting guess (0 for the first two shifts, the truncated mean
\* of the first two for the third), the smallest such value on ties; and
\* the searches of a cell, axis and size go through every searched shift in
\* order, three times, before the optimizer moves on.
C18_SearchMinimizes ==
    [][ trace'.op = "search" =>
            LET k == << cursor.row, cursor.column, cursor.axis, cursor.size >>
                old == Entry(tileShifts, k)
                guess == IF cursor.idx = 2 THEN CDiv(old[1] + old[2], 2) ELSE 0
                window == (guess - 5) .. (guess + 5)
                chosen == tileShifts'[k][cursor.idx + 1]
                score == Table([shift \in window |-> Score(cursor, shift)])
            IN  /\ Cardinality(window) = 11
                /\ chosen \in window
                /\ \A shift \in window : score[chosen] <= score[shift]
                /\ \A shift \in window : shift < chosen => score[chosen] < score[shift]
                /\ \A i \in {1, 2, 3} \ {cursor.idx + 1} :
                       IF i = 3 /\ cursor.axis = 0
                                /\ Processing(cursor.row, cursor.column) \in {"t", "#"}
                       THEN tileShifts'[k][3] = CDiv(tileShifts'[k][1] + tileShifts'[k][2], 2)
                       ELSE tileShifts'[k][i] = old[i]
                /\ Place(cursor) < Searches(cursor)
                /\ IF Place(cursor) + 1 < Searches(cursor)
                   THEN ~cursor'.done /\ SameLoop(cursor', cursor) /\ Place(cursor') = Place(cursor) + 1
                   ELSE cursor'.done \/ (~SameLoop(cursor', cursor) /\ Place(cursor') = 0) ]_vars

\* A search has lowered the blur of its entry, and the table holds a third
\* shift found in a window that is not centred on zero.
C18_Reached ==
    /\ trace.op = "search"
    /\ trace.after < trace.before
    /\ \E k \in DOMAIN tileShifts : tileShifts[k][3] > 5 \/ tileShifts[k][3] < -5

\* An atlas that differs from a in the pixels of its drawn cells alone: each
\* is as empty as it was and has the padding it had.
Repainted(a) ==
    [c \in DOMAIN a |->
        IF isTileEmpty(a[c]) THEN a[c]
        ELSE IF Processing(c[1], c[2]) = "f"
        THEN Content(10, 120, getPadding(a[c]), TILE_HEIGHT - getPadding(a[c]), 128)
        ELSE Content(5, 100, 3, 200, 128)]

\* The first search of a cell, axis and size has just been made.
FirstSearched ==
    /\ pc = "optimizeTiles" /\ trace.op = "search"
    /\ ~cursor.done /\ cursor.pass = 0 /\ cursor.idx = 1

\* What that search comes to on the repainted atlas.
FirstRepainted ==
    LET k == << cursor.row, cursor.column, cursor.axis, cursor.size >>
    IN  Search(Repainted(atlas), tilePadding, Put(tileShifts, k, NoShifts),
               [cursor EXCEPT !.idx = 0])

\* C19, as stated: the search of a cell comes to the same shifts, and the
\* calibrating call to the same blur, whatever the pixels of the cell are.
C19_Original ==
    FirstSearched =>
        /\ tileShifts[<< cursor.row, cursor.column, cursor.axis, cursor.size >>] = FirstRepainted.shifts
        /\ trace.after = FirstRepainted.after

\* The calibrating call of the optimizer at its cursor on atlas a, with the
\* shifts the table holds.
CalibratingOn(a) ==
    prepareTile(Calibrating(a, tilePadding, tileShifts, cursor,
        Entry(tileShifts, << cursor.row, cursor.column, cursor.axis, cursor.size >>)))

\* C19, amended: what does not depend on the pixels of a cell is the shape
\* the calibrating call draws: the glyph stretched over the whole tile, so
\* that every pixel of the tile gets the same number of samples whatever the
\* pixels of the cell are.  The blur is computed from the pixels.
C19_ShapeOnly ==
    (pc = "optimizeTiles" /\ ~cursor.done) =>
        CalibratingOn(atlas).count = CalibratingOn(Repainted(atlas)).count

\* The optimizer is at a cell whose calibrating call has another blur on
\* the repainted atlas, and the same sample counts.
C19_Reached ==
    /\ pc = "optimizeTiles" /\ ~cursor.done
    /\ CalibratingOn(atlas).blur # CalibratingOn(Repainted(atlas)).blur
    /\ CalibratingOn(atlas).count = CalibratingOn(Repainted(atlas)).count
    /\ \E y \in DOMAIN CalibratingOn(atlas).count :
          \E x \in DOMAIN CalibratingOn(atlas).count[y] : CalibratingOn(atlas).count[y][x] > 1

\* C20: every texture that a frame blits was created for the render target
\* the frame is drawn on: loadTiles has rebuilt the textures if the render
\* target is another than theirs, the base tile size being the same or not.
C20_SameTarget == FrameDrawn => \A b \in frame : b.renderer = display.renderer

\* The same, for the program built from the older tiles.c.
C20_OldBuild == build = "old" => C20_SameTarget

\* A completed call that renders one of the wall tops (16,2) and (22,4).
WallCall ==
    /\ result.made /\ ~result.failed /\ ~call.optimizing
    /\ << call.row, call.column >> \in { << 16, 2 >>, << 22, 4 >> }

\* The pixels of the accumulator that the procedural passes of the call
\* have changed.
Painted ==
    LET before == Downscaled(call).v
        after == Augmented(call).v
    IN  {p \in (0 .. call.tileHeight - 1) \X (0 .. call.tileWidth - 1) :
            after[p[1]][p[2]] # before[p[1]][p[2]]}

\* C21: for the wall tops (16,2) and (22,4) the waves are written to rows
\* 0 .. tileHeight/2 only, and no pixel that holds luminance of the
\* downscaled glyph is painted over.
C21_WaveKeepsGlyph ==
    WallCall =>
        \A p \in Painted :
            /\ p[1] <= call.tileHeight \div 2
            /\ Downscaled(call).v[p[1]][p[2]][2] = 0

\* The first half of it: the waves stay in the rows 0 .. tileHeight/2.
C21_UpperHalf == WallCall => \A p \in Painted : p[1] <= call.tileHeight \div 2

\* The same as C21, for the wall tops whose lit rows are lit from the left
\* edge on.
C21_FromLeftEdge == (WallCall /\ call.c # Mark) => C21_WaveKeepsGlyph

\* The lit pixels of the tile a call has produced.
LitPixels ==
    {p \in (0 .. call.tileHeight - 1) \X (0 .. call.tileWidth - 1) : result.alpha[p[1]][p[2]] # 0}

Adjacent(p, q) ==
    /\ p # q
    /\ p[1] - q[1] \in {-1, 0, 1}
    /\ p[2] - q[2] \in {-1, 0, 1}

\* C22: in the tile of the empty floor cell, at every size above 2x2, no
\* two lit pixels touch, by a side or by a corner.
C22_SpecksIsolated ==
    (FloorCall /\ ~result.failed /\ call.tileWidth > 2 /\ call.tileHeight > 2) =>
        \A p, q \in LitPixels : ~Adjacent(p, q)

\* A floor tile with specks on its edges and inside it, some of them two
\* pixels apart.
C22_Reached ==
    /\ FloorCall /\ ~result.failed
    /\ call.tileWidth > 2 /\ call.tileHeight > 2
    /\ \E p \in LitPixels : p[1] = 0
    /\ \E p \in LitPixels :
          /\ p[1] \in 1 .. call.tileHeight - 2 /\ p[2] \in 1 .. call.tileWidth - 2
          /\ \E q \in LitPixels : q # p /\ p[1] - q[1] \in -2 .. 2 /\ p[2] - q[2] \in -2 .. 2

\* The table was zero when optimizeTiles was entered in this process, and
\* nothing else has written it since.
FromZero == process.opened = "missing"

\* The entries of the horizontal axis of the 't' and '#' cells.
Symmetric ==
    {k \in DOMAIN tileShifts : k[3] = 0 /\ Processing(k[1], k[2]) \in {"t", "#"}}

\* C23: for the 't' and '#' cells the third horizontal shift is the mean of
\* the first two, truncated towards zero, after every search and when
\* optimizeTiles has returned.
C23_DerivedMidpoint ==
    FromZero =>
        \A k \in Symmetric : tileShifts[k][3] = CDiv(tileShifts[k][1] + tileShifts[k][2], 2)

\* A search has left a 't' or '#' cell with two horizontal shifts whose sum
\* is negative and odd, where truncation and rounding down differ.
C23_Reached ==
    /\ FromZero
    /\ trace.op = "search"
    /\ \E k \in Symmetric :
          /\ tileShifts[k][1] + tileShifts[k][2] < 0
          /\ (tileShifts[k][1] + tileShifts[k][2]) % 2 = 1

\* The number of shifts the claim gives for a cell mode and an axis.
Kh(processing) == IF processing = "t" \/ processing = "#" THEN 2 ELSE 3
Kv(processing) == IF processing = "t" THEN 1 ELSE 3

\* The number of calibrating calls the claim gives for a cell and an axis,
\* over the sizes that are calibrated.
CallsDue(c, axis) ==
    (LastSize(axis) - FirstSize(axis) + 1) * 3
        * (IF axis = 0 THEN Kh(Processing(c[1], c[2])) ELSE Kv(Processing(c[1], c[2]))) * 11

CallsCounted ==
    (process.optimized > 0 /\ cursor.done) =>
        /\ DOMAIN process.calls = {<< c[1], c[2], axis >> : c \in {d \in Cells : ~tileEmpty[d]},
                                                           axis \in 0 .. 1}
        /\ \A k \in DOMAIN process.calls : process.calls[k] = CallsDue(<< k[1], k[2] >>, k[3])

ShiftInInt8 == trace.op = "search" => (trace.shift[1] >= -128 /\ trace.shift[2] <= 127)

Unvisited(k) ==
    \/ tileEmpty[<< k[1], k[2] >>]
    \/ k[3] = 0 /\ k[4] \in 1 .. 4
    \/ k[3] = 1 /\ k[4] \in 1 .. 6

\* C25: when optimizeTiles has run from the zero table, the first two shifts
\* of every entry are within -5 .. 5 and the third within -10 .. 10, and the
\* entries the search does not visit are zero: those of the empty cells, of
\* the widths 1 .. 4 and of the heights 1 .. 6, and the second and third
\* vertical shifts of the 't' cells.  (An entry that is not in the table of
\* the model is zero.)
C25_ShiftsBounded ==
    (FromZero /\ cursor.done) =>
        \A k \in DOMAIN tileShifts :
            LET shifts == tileShifts[k]
            IN  /\ shifts[1] \in -5 .. 5 /\ shifts[2] \in -5 .. 5
                /\ shifts[3] \in -10 .. 10
                /\ Unvisited(k) => shifts = << 0, 0, 0 >>
                /\ (Processing(k[1], k[2]) = "t" /\ k[3] = 1) =>
                       (shifts[2] = 0 /\ shifts[3] = 0)

\* optimizeTiles is about to return with a third shift beyond -5 .. 5 and a
\* 't' cell whose first vertical shift is not zero.
C25_Reached ==
    /\ FromZero /\ pc = "optimizeTiles" /\ cursor.done
    /\ \E k \in DOMAIN tileShifts : tileShifts[k][3] > 5 \/ tileShifts[k][3] < -5
    /\ \E k \in DOMAIN tileShifts :
          Processing(k[1], k[2]) = "t" /\ k[3] = 1 /\ tileShifts[k][1] # 0

\* A step of updateScreen in which loadTiles is called for the first time in
\* the process: init has run in it, reading the cache file or calibrating.
FirstLoadTiles ==
    /\ ~Returns
    /\ \/ pc = "idle" /\ ~TilesPNG /\ file.present
       \/ pc = "optimizeTiles" /\ cursor.done
    /\ trace'.op = "updateScreen"

\* C26: at an output size that is not zero, the first loadTiles call of a
\* process builds the textures, also after optimizeTiles, which leaves 64 and
\* 65 in baseTileWidth and baseTileHeight: the base tile size becomes the one
\* derived from the output size, and every texture the frame is drawn from is
\* built, for that base size.
C26_FirstLoadBuilds ==
    [][(FirstLoadTiles /\ display.width # 0 /\ display.height # 0)
          => /\ trace'.rebuilt
             /\ << baseTileWidth', baseTileHeight' >> = DerivedBase
             /\ \A b \in frame' :
                   /\ ~b.null
                   /\ b.tileWidth = DerivedBase[1] + WiderBy(b.texture)
                   /\ b.tileHeight = DerivedBase[2] + HigherBy(b.texture)]_vars

\* The first frame after a calibration, in a window whose tiles are 64 x 65.
C26_Reached ==
    /\ trace.op = "updateScreen" /\ pc = "idle" /\ trace.rebuilt
    /\ process.opened = "missing"
    /\ \E c \in Cells : ~tileEmpty[c]
    /\ << display.width \div COLS, display.height \div ROWS >> = << MAX_TILE_SIZE, MAX_TILE_SIZE + 1 >>
    /\ build = "old"
    /\ frame # {}

\* The target row of the source row 0.
FirstRow ==
    ScaledY(Processing(call.row, call.column), call.padding, Glyph.fitHeight,
            Glyph.glyphHeight, VShifts)[0]

\* C28: the test of the skipped line reads scaledY at an index of the
\* array: it is not evaluated for the source row 0, that is, the source row
\* 0 is not mapped to a target row of the tile from 2 on.
C28_IndexValid ==
    (result.made /\ ~call.empty) => ~(FirstRow >= 2 /\ FirstRow < call.tileHeight)

\* What the call yields depends on the word read before the array: two calls
\* that differ in that word alone differ in the tile.
C28_WordShows ==
    (result.made /\ ~result.failed /\ call \in TallCalls) =>
        \A other \in TallCalls \ {call} : prepareTile(other).alpha # result.alpha

\* The glyph sizes of the prepareTile calls that built the texture variants
\* in use: one call for every variant and every cell that is not empty.
GlyphSizesBuilt ==
    UNION {{LET g == GlyphSize(Processing(c[1], c[2]), tilePadding[c], FALSE,
                               Textures[i].tileWidth, Textures[i].tileHeight,
                               baseTileWidth, baseTileHeight)
            IN  {g.glyphWidth, g.glyphHeight} : c \in {d \in Cells : ~tileEmpty[d]}}
           : i \in {j \in 0 .. 3 : ~Textures[j].null}}

\* C27: every glyph size prepareTile indexes the shift table with is within
\* 1 .. MAX_TILE_SIZE, in the calls that build the texture variants for any
\* output size.
C27_IndexInTable ==
    (TilesPNG /\ pc = "idle") =>
        \A sizes \in GlyphSizesBuilt : \A size \in sizes :
            Indexed(size) => size \in 1 .. MAX_TILE_SIZE

\* C27 holds for the newer prepareTile, also where a glyph is larger than
\* MAX_TILE_SIZE.
C27_NewBuild == build = "new" => C27_IndexInTable

C27_NewBuildReached ==
    /\ build = "new" /\ TilesPNG /\ pc = "idle"
    /\ \E sizes \in GlyphSizesBuilt : \E size \in sizes : size > MAX_TILE_SIZE

\* The accumulators of the call: after the downscaling, and after the
\* procedural passes.
Accumulators == {Downscaled(call).v, Augmented(call).v}

\* C29: in every pixel of the accumulator the sum of squares is below 2^32,
\* so that it does not carry into the counter, which is then the number of
\* samples added; and the average the pixel is normalized to is within
\* 0 .. 255 * 255.
C29_FieldsApart ==
    (result.made /\ ~result.failed) =>
        \A v \in Accumulators :
            \A y \in 0 .. call.tileHeight - 1, x \in 0 .. call.tileWidth - 1 :
                /\ v[y][x][2] >= 0 /\ v[y][x][2] \div 2 ^ 16 < 2 ^ 16
                /\ v[y][x][1] \in 0 .. TILE_WIDTH * TILE_HEIGHT
                /\ Average(v[y][x]) \in 0 .. LIGHT

\* A white cell taken to one pixel: every source pixel is added to it.
C29_Reached ==
    /\ result.made /\ ~result.failed
    /\ call.tileWidth = 1 /\ call.tileHeight = 1
    /\ Downscaled(call).v[0][0] = << TILE_WIDTH * TILE_HEIGHT, TILE_WIDTH * TILE_HEIGHT * LIGHT >>

\* A step of updateScreen in which the newer loadTiles has rebuilt.
RebuiltNew == build = "new" /\ trace.op = "updateScreen" /\ trace.rebuilt /\ pc = "idle"

\* C30: when the newer loadTiles has rebuilt, baseTileWidth and
\* baseTileHeight are at least 1; numTextures is 4 when both are below
\* MAX_TILE_SIZE and 1 otherwise, and when it is 4 the base tile size is
\* (max(1, outputWidth / COLS), max(1, outputHeight / ROWS)); Textures[i] is
\* non-null for i < numTextures and NULL for the others.
C30_Rebuilt ==
    RebuiltNew =>
        /\ baseTileWidth >= 1 /\ baseTileHeight >= 1
        /\ numTextures \in {1, 4}
        /\ numTextures = 4 <=> (baseTileWidth < MAX_TILE_SIZE /\ baseTileHeight < MAX_TILE_SIZE)
        /\ numTextures = 4 =>
              /\ baseTileWidth = Max(1, display.width \div COLS)
              /\ baseTileHeight = Max(1, display.height \div ROWS)
        /\ \A i \in 0 .. 3 : Textures[i].null <=> i >= numTextures

\* Rebuilds of the three kinds: four variants of a base size of 1 in a
\* window narrower than COLS pixels, and a single texture.
C30_Reached ==
    /\ RebuiltNew
    /\ numTextures = 1 /\ baseTileWidth = TILE_WIDTH

C30_SmallReached ==
    /\ RebuiltNew
    /\ numTextures = 4 /\ display.width < COLS /\ baseTileWidth = 1
====
